---------------------------- MODULE Spec2Model ----------------------------
(***************************************************************************)
(* A model of MonteWalk's trade gate (tools/risk_engine.py validate_trade, *)
(* tools/execution.py place_order), of its moving-average backtester       *)
(* (tools/backtesting.py run_backtest, walk_forward_analysis), of its risk *)
(* analytics and optimizer (tools/risk_engine.py, portfolio_optimizer.py), *)
(* of get_price (tools/market_data.py) and of the watchlist                *)
(* (tools/watchlist.py).                                                   *)
(*                                                                         *)
(* Conventions.                                                            *)
(*  - Money is counted in whole units (cents); quantities are integers.    *)
(*    The gate's float comparison qty*price > cash*0.50 is modelled        *)
(*    exactly as 2*qty*price > cash.                                       *)
(*  - Python's None is the string "None"; the messages a function returns  *)
(*    are strings that keep the message's fixed text.                      *)
(*  - Logging calls have no effect on the modelled state and are left out. *)
(*    risk_engine.py uses the names logger and _load_portfolio without     *)
(*    binding them in the file; the model takes both as bound, and takes   *)
(*    _load_portfolio() to return the account's cash and positions;        *)
(*    backtesting.py likewise uses logger, get_price and json unbound, and *)
(*    the model takes them as bound to tools.market_data.get_price and the *)
(*    json module. market_data.py uses logger and json unbound as well,    *)
(*    and the model takes them as the logging and json modules there too,  *)
(*    as it does the logger of watchlist.py.                               *)
(*  - A float that may be NaN is a record [nan, num, den]: NaN, or the     *)
(*    exact rational num/den. Sums and comparisons are exact.              *)
(***************************************************************************)
EXTENDS Integers, Sequences, FiniteSets, TLC

\* ------------------------------------------------------------------ bounds
MaxPrice == 3
MaxQty == 3
MaxCash == 8
MaxHeld == 1
\* run_backtest: bars in the fetched series, the largest close, the largest window
BtBars == 5
MaxClose == 3
MaxWindow == 3
\* walk_forward_analysis: months of training and of test, months of bars fetched,
\* the largest close
MaxTrainMonths == 3
MaxTestMonths == 2
MaxSeriesMonths == 8
MaxWfClose == 3

Symbols == {"AAPL", "MSFT"}
Sides == {"buy", "sell"}
OrderTypes == {"market", "limit", "stop"}
Qtys == (-1) .. MaxQty
Prices == (-1) .. MaxPrice
CashValues == (-2) .. MaxCash
\* limit_price: 0 stands for both None and 0.0, the two values "not limit_price" accepts
LimitPrices == 0 .. MaxPrice
BrokerStates == {"ok", "none"}
\* what ticker.fast_info.last_price does: raises, yields None, or yields a price
PriceOutcomes ==
    {[kind |-> "raise", value |-> 0], [kind |-> "none", value |-> 0]}
        \cup {[kind |-> "value", value |-> p] : p \in Prices}
\* what broker.submit_*_order does: returns the confirmation, or re-raises
SubmitOutcomes == {"ok", "raise"}

NoneVal == "None"
RejectCash == "Risk Rejection: Trade value exceeds 50% of available cash."
RejectQty == "Risk Rejection: Quantity must be positive."
ErrBroker == "ERROR: Alpaca broker not initialized. Check your API credentials in .env file."
ErrPrice == "Failed to get price"
ErrLimit == "ERROR: Limit price required for limit orders."
ErrUnknownType == "ERROR: Unknown order type"
ErrOrderFailed == "ERROR: Order failed"
MarketSubmitted == "Market Order Submitted"
LimitSubmitted == "Limit Order Submitted"

NoCall == [op |-> "idle"]
NoRun == [op |-> "idle"]
\* no file watchlist.json in the data directory
NoFile == [exists |-> FALSE, readable |-> FALSE, items |-> <<>>]

VARIABLES
    broker,     \* execution.broker: "ok" once get_broker() succeeded, else "none"
    cash,       \* the account's cash, as _load_portfolio()["cash"] reports it
    positions,  \* the account's holdings: symbol -> quantity
    last,       \* the last gate, order or watchlist call made and what it did
    bt,         \* the last run_backtest call: its frame's columns and its result
    wf,         \* the walk_forward_analysis call in progress, or its report
    risk,       \* the last risk_engine analytics call and what it did
    opt,        \* the last portfolio_optimizer call and what it did
    md,         \* the market_data.get_price call in progress, or its result
    calc,       \* a figure computed on its own (drawdown, weights): its inputs and
                \* its value; for the simulation, the invocation before the last
    rng,        \* the state of numpy's global random generator
    watchlist   \* the file watchlist.json

vars == <<broker, cash, positions, last, bt, wf, risk, opt, md, calc, rng, watchlist>>

\* --------------------------------------------------------- risk_engine.py

\* _load_portfolio(): the account's cash and positions
_load_portfolio == [cash |-> cash, positions |-> positions]

\* a gate that tests the quantity only for sells
validate_trade_qty_on_sell_only(symbol, side, qty, current_price) ==
    LET portfolio == _load_portfolio
        trade_value == qty * current_price
    IN  IF side = "buy"
        THEN IF 2 * trade_value > portfolio.cash THEN RejectCash ELSE NoneVal
        ELSE IF qty <= 0 THEN RejectQty ELSE NoneVal

\* a gate whose cap is not strict: a trade of exactly half the cash is rejected
validate_trade_ge(symbol, side, qty, current_price) ==
    LET portfolio == _load_portfolio
        trade_value == qty * current_price
    IN  IF side = "buy" /\ 2 * trade_value >= portfolio.cash THEN RejectCash
        ELSE IF qty <= 0 THEN RejectQty
        ELSE NoneVal

\* a gate that caps both sides
validate_trade_both_sides(symbol, side, qty, current_price) ==
    LET portfolio == _load_portfolio
        trade_value == qty * current_price
    IN  IF 2 * trade_value > portfolio.cash THEN RejectCash
        ELSE IF qty <= 0 THEN RejectQty
        ELSE NoneVal

\* validate_trade(symbol, side, qty, current_price): None, or the rejection message
validate_trade(symbol, side, qty, current_price) ==
    LET portfolio == _load_portfolio
        trade_value == qty * current_price
    IN  IF side = "buy" /\ 2 * trade_value > portfolio.cash THEN RejectCash
        ELSE IF qty <= 0 THEN RejectQty
        ELSE NoneVal


\* ----------------------------------------------------------- execution.py

\* the record of one call a handler made
GateCall(symbol, side, qty, current_price, ret) ==
    [call |-> "validate_trade", symbol |-> symbol, side |-> side, qty |-> qty,
     price |-> current_price, cash |-> cash, ret |-> ret]
SubmitCall(name, symbol, side, qty, limit_price) ==
    [call |-> name, symbol |-> symbol, side |-> side, qty |-> qty,
     limit |-> limit_price]

Returns(ret, events) == [kind |-> "return", ret |-> ret, events |-> events]
Raises(events) == [kind |-> "raise", ret |-> NoneVal, events |-> events]

\* lines 100-133: the order is handed to the broker
submit_order(symbol, side, qty, order_type, limit_price, submitOutcome, events) ==
    IF order_type = "market"
    THEN LET ev == Append(events, SubmitCall("submit_market_order", symbol, side, qty, 0))
         IN  IF submitOutcome = "raise" THEN Raises(ev)
             ELSE Returns(MarketSubmitted, ev)
    ELSE IF order_type = "limit"
    THEN IF limit_price = 0 THEN Returns(ErrLimit, events)
         ELSE LET ev == Append(events,
                            SubmitCall("submit_limit_order", symbol, side, qty, limit_price))
              IN  IF submitOutcome = "raise" THEN Raises(ev)
                  ELSE Returns(LimitSubmitted, ev)
    ELSE Returns(ErrUnknownType, events)

\* a body that logs the rejection and goes on to submit the order
place_order_try_no_return(symbol, side, qty, order_type, limit_price, priceOutcome, submitOutcome) ==
    IF priceOutcome.kind # "value"
    THEN Returns(ErrPrice, <<>>)
    ELSE LET current_price == priceOutcome.value
             risk_error == validate_trade(symbol, side, qty, current_price)
             events == <<GateCall(symbol, side, qty, current_price, risk_error)>>
         IN  submit_order(symbol, side, qty, order_type, limit_price, submitOutcome, events)

\* a body that submits first and consults the gate afterwards
place_order_try_gate_last(symbol, side, qty, order_type, limit_price, priceOutcome, submitOutcome) ==
    IF priceOutcome.kind # "value"
    THEN Returns(ErrPrice, <<>>)
    ELSE LET current_price == priceOutcome.value
             risk_error == validate_trade(symbol, side, qty, current_price)
             sub == submit_order(symbol, side, qty, order_type, limit_price, submitOutcome, <<>>)
             events == Append(sub.events, GateCall(symbol, side, qty, current_price, risk_error))
         IN  IF sub.kind = "raise" THEN Raises(sub.events)
             ELSE IF risk_error # NoneVal THEN Returns(risk_error, events)
             ELSE Returns(sub.ret, events)

\* lines 83-133: the body of place_order's try block
place_order_try(symbol, side, qty, order_type, limit_price, priceOutcome, submitOutcome) ==
    IF priceOutcome.kind # "value"
    THEN \* fast_info.last_price raised, or it is None
         Returns(ErrPrice, <<>>)
    ELSE LET current_price == priceOutcome.value
             risk_error == validate_trade(symbol, side, qty, current_price)
             events == <<GateCall(symbol, side, qty, current_price, risk_error)>>
         IN  IF risk_error # NoneVal
             THEN Returns(risk_error, events)
             ELSE submit_order(symbol, side, qty, order_type, limit_price,
                               submitOutcome, events)

\* place_order: the broker check, then the try block under "except Exception"
place_order(symbol, side, qty, order_type, limit_price, priceOutcome, submitOutcome) ==
    IF broker = "none"
    THEN [ret |-> ErrBroker, events |-> <<>>, raised |-> FALSE]
    ELSE LET r == place_order_try(symbol, side, qty, order_type, limit_price,
                                  priceOutcome, submitOutcome)
         IN  IF r.kind = "raise"
             THEN [ret |-> ErrOrderFailed, events |-> r.events, raised |-> FALSE]
             ELSE [ret |-> r.ret, events |-> r.events, raised |-> FALSE]

\* --------------------------------------------------------- backtesting.py

NaN == [nan |-> TRUE, num |-> 0, den |-> 1]
Num(n, d) == [nan |-> FALSE, num |-> n, den |-> d]

\* a > b on floats: False when either side is NaN (every den is positive)
GT(a, b) == ~a.nan /\ ~b.nan /\ a.num * b.den > b.num * a.den
\* a * b on floats: NaN when either side is NaN
Mul(a, b) == IF a.nan \/ b.nan THEN NaN ELSE Num(a.num * b.num, a.den * b.den)
\* a = b as rationals, neither NaN
RatEq(a, b) == ~a.nan /\ ~b.nan /\ a.num * b.den = b.num * a.den

\* a column of a frame, its rows computed once
Column(rows) == rows \o <<>>

\* close[lo] + ... + close[hi], summed by halves
RECURSIVE SumRange(_, _, _)
SumRange(close, lo, hi) ==
    IF lo > hi THEN 0
    ELSE IF lo = hi THEN close[lo]
    ELSE LET mid == (lo + hi) \div 2
         IN  SumRange(close, lo, mid) + SumRange(close, mid + 1, hi)

\* the mean of the last "length" bars, NaN until "length" bars are there:
\* ta.sma(close, length) and close.rolling(window=length).mean()
rolling_mean(close, length) ==
    Column([t \in 1 .. Len(close) |->
        IF t < length THEN NaN ELSE Num(SumRange(close, t - length + 1, t), length)])

\* lines 37-38: Signal = 1 where Fast_MA > Slow_MA, else 0
Signal(Fast_MA, Slow_MA) ==
    Column([t \in 1 .. Len(Fast_MA) |-> IF GT(Fast_MA[t], Slow_MA[t]) THEN 1 ELSE 0])

\* close.pct_change(): NaN on the first bar, then the close-to-close change
pct_change(close) ==
    Column([t \in 1 .. Len(close) |->
        IF t = 1 THEN NaN ELSE Num(close[t] - close[t - 1], close[t - 1])])

\* series.shift(1) of an integer column: NaN on the first bar, then the bar before
shift1(col) ==
    Column([t \in 1 .. Len(col) |-> IF t = 1 THEN NaN ELSE Num(col[t - 1], 1)])

\* the return of day t times the signal of the same day t: no shift
Strategy_Return_unshifted(Market_Return, signal) ==
    Column([t \in 1 .. Len(Market_Return) |->
        IF t = 1 THEN NaN ELSE Mul(Market_Return[t], Num(signal[t], 1))])

\* line 43: Strategy_Return = Market_Return * Signal.shift(1)
Strategy_Return(Market_Return, signal) ==
    LET shifted == shift1(signal)
    IN  Column([t \in 1 .. Len(Market_Return) |-> Mul(Market_Return[t], shifted[t])])

\* lines 24-26: the rows whose Date lies in [start_date, end_date]; bar i is dated i
RECURSIVE filter_by_date(_, _, _, _)
filter_by_date(closes, i, start_date, end_date) ==
    IF i > Len(closes) THEN <<>>
    ELSE IF i >= start_date /\ i <= end_date
    THEN <<closes[i]>> \o filter_by_date(closes, i + 1, start_date, end_date)
    ELSE filter_by_date(closes, i + 1, start_date, end_date)

ErrBacktest == "Error running backtest"
NoDataFound == "No data found for symbol"
NoDataInRange == "No data in specified date range."
BacktestResults == "Backtest Results"

BtFailed(fast_ma, slow_ma, ret) ==
    [op |-> "run_backtest", fast |-> fast_ma, slow |-> slow_ma, ret |-> ret,
     Close |-> <<>>, Signal |-> <<>>, Market_Return |-> <<>>, Strategy_Return |-> <<>>]

\* a backtest that does not look whether the date range left any bar
run_backtest_no_range_check(data, fast_ma, slow_ma, start_date, end_date) ==
    IF data.kind # "json"
    THEN BtFailed(fast_ma, slow_ma, ErrBacktest)
    ELSE IF data.closes = <<>>
    THEN BtFailed(fast_ma, slow_ma, NoDataFound)
    ELSE LET Close == filter_by_date(data.closes, 1, start_date, end_date)
         IN  IF fast_ma > Len(Close) \/ slow_ma > Len(Close)
             THEN BtFailed(fast_ma, slow_ma, ErrBacktest)
             ELSE LET Fast_MA == rolling_mean(Close, fast_ma)
                      Slow_MA == rolling_mean(Close, slow_ma)
                      sig == Signal(Fast_MA, Slow_MA)
                      Market_Return == pct_change(Close)
                  IN  [op |-> "run_backtest", fast |-> fast_ma, slow |-> slow_ma,
                       ret |-> BacktestResults, Close |-> Close, Signal |-> sig,
                       Market_Return |-> Market_Return,
                       Strategy_Return |-> Strategy_Return(Market_Return, sig)]

\* run_backtest: "data" is what get_price returned, a JSON list of bars or a message
run_backtest(data, fast_ma, slow_ma, start_date, end_date) ==
    IF data.kind # "json"
    THEN \* json.loads raises on a message; "except Exception" turns it into a string
         BtFailed(fast_ma, slow_ma, ErrBacktest)
    ELSE IF data.closes = <<>>
    THEN BtFailed(fast_ma, slow_ma, NoDataFound)
    ELSE LET Close == filter_by_date(data.closes, 1, start_date, end_date)
         IN  IF Close = <<>>
             THEN BtFailed(fast_ma, slow_ma, NoDataInRange)
             ELSE IF fast_ma > Len(Close) \/ slow_ma > Len(Close)
             THEN \* ta.sma gives None for a series shorter than the window, and
                  \* the comparison of line 38 raises on it
                  BtFailed(fast_ma, slow_ma, ErrBacktest)
             ELSE LET Fast_MA == rolling_mean(Close, fast_ma)
                      Slow_MA == rolling_mean(Close, slow_ma)
                      sig == Signal(Fast_MA, Slow_MA)
                      Market_Return == pct_change(Close)
                  IN  [op |-> "run_backtest", fast |-> fast_ma, slow |-> slow_ma,
                       ret |-> BacktestResults, Close |-> Close, Signal |-> sig,
                       Market_Return |-> Market_Return,
                       Strategy_Return |-> Strategy_Return(Market_Return, sig)]

\* what get_price hands to run_backtest
FetchedData ==
    {[kind |-> "text", closes |-> <<>>], [kind |-> "json", closes |-> <<>>]}
        \cup {[kind |-> "json", closes |-> c] : c \in [1 .. BtBars -> 1 .. MaxClose]}
Windows == 1 .. MaxWindow
StartDates == {1, 2, BtBars + 1}
EndDates == {BtBars - 1, BtBars}

\* ----------------------------------------- backtesting.py, walk-forward

\* "21 days/month"
TradingDaysPerMonth == 21
fast_params == <<10, 20, 50>>
slow_params == <<50, 100, 200>>

NoDataFoundWf == "No data found."
WalkForwardResults == "Walk Forward Analysis Results:"

RECURSIVE Gcd(_, _)
Gcd(a, b) == IF b = 0 THEN a ELSE Gcd(b, a % b)
RECURSIVE LcmUpTo(_)
LcmUpTo(n) == IF n <= 1 THEN 1 ELSE (LcmUpTo(n - 1) * n) \div Gcd(LcmUpTo(n - 1), n)
\* returns are summed exactly, counted in units of 1/RetScale: every close divides it
RetScale == LcmUpTo(MaxWfClose)

\* the fetched closes: a triangle wave between 1 and MaxWfClose, each level held
\* for series.hold bars, starting series.phase bars into the wave; bar i is the
\* i-th row of the frame, counted from 0 as iloc does
WfClose(series, i) ==
    LET period == 2 * (MaxWfClose - 1)
        m == ((i + series.phase) \div series.hold) % period
    IN  1 + (IF m < MaxWfClose THEN m ELSE period - m)

\* close.iloc[lo : hi] of a frame of n rows: the rows lo .. hi-1 that exist
iloc(series, n, lo, hi) ==
    LET first == IF lo > n THEN n ELSE lo
        stop == IF hi > n THEN n ELSE hi
        bars == IF stop > first THEN stop - first ELSE 0
    IN  [first |-> first, last |-> first + bars - 1,
         close |-> Column([t \in 1 .. bars |-> WfClose(series, first + t - 1)])]

\* ret.sum(): the sum of the returns that are not NaN, in units of 1/RetScale
RECURSIVE sum_skipna(_, _, _)
sum_skipna(ret, lo, hi) ==
    IF lo > hi THEN 0
    ELSE IF lo = hi
    THEN IF ret[lo].nan THEN 0 ELSE ret[lo].num * (RetScale \div ret[lo].den)
    ELSE LET mid == (lo + hi) \div 2
         IN  sum_skipna(ret, lo, mid) + sum_skipna(ret, mid + 1, hi)

\* lines 113-117 and 125-129: the summed signal-weighted return of (f, s) on data
ma_perf(data, f, s) ==
    LET fast_ma == rolling_mean(data, f)
        slow_ma == rolling_mean(data, s)
        ret == Strategy_Return(pct_change(data), Signal(fast_ma, slow_ma))
    IN  sum_skipna(ret, 1, Len(data))

\* a grid that skips a pair only when f > s
skip_pair_gt(f, s) == f > s

\* line 111: if f >= s: continue
skip_pair(f, s) == f >= s

\* a comparison that lets a later pair of equal performance replace the kept one
is_better_ge(perf, best) == best.neginf \/ perf >= best.perf

\* line 119: if perf > best_perf, where best_perf starts at -inf (best.neginf)
is_better(perf, best) == best.neginf \/ perf > best.perf

\* lines 106-121: the grid search, pair k of the 9 in loop order (f outer, s inner);
\* best.perf is -inf while best.neginf
RECURSIVE grid_search(_, _, _)
grid_search(train_data, k, best) ==
    IF k > Len(fast_params) * Len(slow_params) THEN best
    ELSE LET f == fast_params[((k - 1) \div Len(slow_params)) + 1]
             s == slow_params[((k - 1) % Len(slow_params)) + 1]
         IN  IF skip_pair(f, s) THEN grid_search(train_data, k + 1, best)
             ELSE LET perf == ma_perf(train_data, f, s)
                      seen == Append(best.evaluated, <<f, s>>)
                  IN  IF is_better(perf, best)
                      THEN grid_search(train_data, k + 1,
                               [neginf |-> FALSE, perf |-> perf, params |-> <<f, s>>,
                                evaluated |-> seen])
                      ELSE grid_search(train_data, k + 1, [best EXCEPT !.evaluated = seen])

\* a step of the train length
wf_step_train_len(train_len, test_len) == train_len
\* a step of a whole train-and-test pair
wf_step_pair_len(train_len, test_len) == train_len + test_len

\* line 92: step = test_len
wf_step(train_len, test_len) == test_len

\* a loop that also takes the window whose test range ends on the last bar
wf_loop_condition_inclusive(current_idx, train_len, test_len, n) ==
    current_idx + train_len + test_len <= n

\* a loop that asks only for a whole train window
wf_loop_condition_train_only(current_idx, train_len, test_len, n) ==
    current_idx + train_len < n

\* line 101: while current_idx + train_len + test_len < len(df)
wf_loop_condition(current_idx, train_len, test_len, n) ==
    current_idx + train_len + test_len < n

\* a pass that tests on the train and test bars together, the train bars
\* warming the averages up
wf_window_warmed_up(series, n, current_idx, train_len, test_len) ==
    LET train_data == iloc(series, n, current_idx, current_idx + train_len)
        test_data == iloc(series, n, current_idx + train_len,
                          current_idx + train_len + test_len)
        best == grid_search(train_data.close, 1,
                    [neginf |-> TRUE, perf |-> 0, params |-> <<0, 0>>, evaluated |-> <<>>])
        f == best.params[1]
        s == best.params[2]
    IN  [train_first |-> train_data.first, train_last |-> train_data.last,
         test_first |-> test_data.first, test_last |-> test_data.last,
         best_params |-> best.params, best_perf |-> best.perf,
         evaluated |-> best.evaluated,
         test_return |-> ma_perf(train_data.close \o test_data.close, f, s)]

\* lines 102-135: one pass of the loop body, giving the entry appended to results
wf_window(series, n, current_idx, train_len, test_len) ==
    LET train_data == iloc(series, n, current_idx, current_idx + train_len)
        test_data == iloc(series, n, current_idx + train_len,
                          current_idx + train_len + test_len)
        best == grid_search(train_data.close, 1,
                    [neginf |-> TRUE, perf |-> 0, params |-> <<0, 0>>, evaluated |-> <<>>])
        f == best.params[1]
        s == best.params[2]
    IN  [train_first |-> train_data.first, train_last |-> train_data.last,
         test_first |-> test_data.first, test_last |-> test_data.last,
         best_params |-> best.params, best_perf |-> best.perf,
         evaluated |-> best.evaluated,
         test_return |-> ma_perf(test_data.close, f, s)]

RECURSIVE total_ret(_, _)
total_ret(results, k) ==
    IF k = 0 THEN 0 ELSE total_ret(results, k - 1) + results[k].test_return

WfSeries == {[hold |-> h, phase |-> ph] : h \in {1, 4, 17}, ph \in {0, 5}}
WfLengths == {m * TradingDaysPerMonth + d : m \in 0 .. MaxSeriesMonths, d \in {0, 1}}
TrainMonths == 0 .. MaxTrainMonths
TestMonths == 0 .. MaxTestMonths

\* ------------------------------------------- risk_engine.py, the analytics

\* rows in the downloaded frame; paths simulated; days projected
MaxRows == 3
MaxSims == 2
MaxDays == 2

EmptyPortfolio == "Portfolio is empty."
VolatilityReport == "Annualized Portfolio Volatility"
VarReport == "Daily VaR"
DrawdownReport == "Maximum Drawdown"
NotPositiveDefinite ==
    "Covariance matrix is not positive definite. Insufficient data history."
MonteCarloResults == "Monte Carlo Results"

\* broker.get_all_positions(): answers, or raises
QueryOutcomes == {"ok", "raise"}
\* np.linalg.cholesky(cov_matrix): a factor, or LinAlgError. A NaN matrix (fewer
\* than 2 observations) is rejected by some LAPACK builds and factored into NaN by
\* others; a singular matrix (no more observations than assets, collinear or
\* constant prices) passes or fails with the rounding of its pivots
CholeskyOutcomes == {"ok", "LinAlgError"}
\* np.percentile of an empty array: NaN in some numpy releases, IndexError in others
EmptyPercentileOutcomes == {"nan", "raise"}
Simulations == 0 .. MaxSims
Days == 0 .. MaxDays

Called(name) == [call |-> name]
Downloaded(tickers, period) == [call |-> "yf.download", tickers |-> tickers, period |-> period]

\* a get_positions that reports the ledger whether or not the broker answers
get_positions_ledger(queryOutcome) ==
    [error |-> FALSE, cash |-> cash,
     positions |-> [s \in {t \in Symbols : positions[t] # 0} |-> positions[s]]]

\* execution.py lines 18-54: the open positions as symbol -> qty, or the error dict
\* with no positions when the broker is missing or its query raises
get_positions(queryOutcome) ==
    IF broker = "none" \/ queryOutcome = "raise"
    THEN [error |-> TRUE, cash |-> 0, positions |-> [s \in {} |-> 0]]
    ELSE [error |-> FALSE, cash |-> cash,
          positions |-> [s \in {t \in Symbols : positions[t] # 0} |-> positions[s]]]

\* what yf.download(tickers, period=lookback)['Close'] does: it raises, or gives a
\* frame of "rows" dated rows in which the column of s holds a close from row
\* first[s] on; first[s] = rows + 1 is a column of NaN, the fetch of s having failed
DownloadOutcomes(tickers) ==
    {[kind |-> "raise", rows |-> 0, first |-> [s \in tickers |-> 1]]}
        \cup UNION {{[kind |-> "frame", rows |-> d, first |-> f] :
                        f \in [tickers -> 1 .. d + 1]} : d \in 0 .. MaxRows}

\* a _get_portfolio_data that downloads before it looks at the positions
_get_portfolio_data_fetch_first(lookback, queryOutcome, download) ==
    LET held == get_positions(queryOutcome).positions
        tickers == DOMAIN held
        fetched == <<Called("get_positions"), Downloaded(tickers, lookback)>>
    IN  IF tickers = {}
        THEN [kind |-> "none", events |-> fetched, tickers |-> tickers,
              rows |-> 0, first |-> download.first, weights_nan |-> FALSE]
        ELSE IF download.kind = "raise" \/ download.rows = 0
        THEN [kind |-> "raise", events |-> fetched, tickers |-> tickers,
              rows |-> download.rows, first |-> download.first, weights_nan |-> FALSE]
        ELSE [kind |-> "data", events |-> fetched, tickers |-> tickers,
              rows |-> download.rows, first |-> download.first,
              weights_nan |-> \E s \in tickers : download.first[s] > download.rows]

\* lines 7-27: (None, None) for no positions; else the frame of closes and the
\* weights qty * last close / total, NaN for a symbol whose last close is NaN
_get_portfolio_data(lookback, queryOutcome, download) ==
    LET held == get_positions(queryOutcome).positions
        tickers == DOMAIN held
        fetched == <<Called("get_positions"), Downloaded(tickers, lookback)>>
    IN  IF tickers = {}
        THEN [kind |-> "none", events |-> <<Called("get_positions")>>,
              tickers |-> tickers, rows |-> 0, first |-> download.first,
              weights_nan |-> FALSE]
        ELSE IF download.kind = "raise" \/ download.rows = 0
        THEN \* yf.download raised, or data.iloc[-1] of a frame without rows did
             [kind |-> "raise", events |-> fetched, tickers |-> tickers,
              rows |-> download.rows, first |-> download.first, weights_nan |-> FALSE]
        ELSE [kind |-> "data", events |-> fetched, tickers |-> tickers,
              rows |-> download.rows, first |-> download.first,
              weights_nan |-> \E s \in tickers : download.first[s] > download.rows]

\* the rows left by data.pct_change().dropna(), and by the log returns' dropna():
\* those on which every symbol has a close and had one on the row before
observations(data) ==
    LET latest == CHOOSE m \in {data.first[s] : s \in data.tickers} :
                      \A s \in data.tickers : data.first[s] <= m
    IN  IF latest >= data.rows THEN 0 ELSE data.rows - latest

\* a call that ended in an exception nothing in the function catches
RiskRaised(op, data, events) ==
    [op |-> op, events |-> events, ret |-> NoneVal, figure |-> "none", raised |-> TRUE,
     tickers |-> data.tickers, rows |-> data.rows, first |-> data.first]
\* a call that returned the string ret, whose figures are numbers, NaN, or absent
RiskReturned(op, data, events, ret, figure) ==
    [op |-> op, events |-> events, ret |-> ret, figure |-> figure, raised |-> FALSE,
     tickers |-> data.tickers, rows |-> data.rows, first |-> data.first]

\* lines 29-40: the sample covariance needs 2 observations, and is NaN below that
portfolio_risk(queryOutcome, download) ==
    LET data == _get_portfolio_data("1y", queryOutcome, download)
    IN  IF data.kind = "raise" THEN RiskRaised("portfolio_risk", data, data.events)
        ELSE IF data.kind = "none"
        THEN RiskReturned("portfolio_risk", data, data.events, EmptyPortfolio, "none")
        ELSE LET cov_matrix == IF observations(data) < 2 THEN "nan" ELSE "number"
                 port_volatility ==
                     IF cov_matrix = "nan" \/ data.weights_nan THEN "nan" ELSE "number"
             IN  RiskReturned("portfolio_risk", data,
                     data.events \o <<Called("pct_change"), Called("cov")>>,
                     VolatilityReport, port_volatility)

\* lines 42-57: the percentile of the portfolio's historical returns
var(queryOutcome, download, emptyPercentile) ==
    LET data == _get_portfolio_data("1y", queryOutcome, download)
    IN  IF data.kind = "raise" THEN RiskRaised("var", data, data.events)
        ELSE IF data.kind = "none"
        THEN RiskReturned("var", data, data.events, EmptyPortfolio, "none")
        ELSE LET events == data.events \o <<Called("pct_change"), Called("np.percentile")>>
             IN  IF observations(data) = 0
                 THEN IF emptyPercentile = "raise" THEN RiskRaised("var", data, events)
                      ELSE RiskReturned("var", data, events, VarReport, "nan")
                 ELSE RiskReturned("var", data, events, VarReport, "number")

\* lines 59-72: the minimum of the drawdown curve, NaN for an empty curve
max_drawdown(queryOutcome, download) ==
    LET data == _get_portfolio_data("1y", queryOutcome, download)
    IN  IF data.kind = "raise" THEN RiskRaised("max_drawdown", data, data.events)
        ELSE IF data.kind = "none"
        THEN RiskReturned("max_drawdown", data, data.events, EmptyPortfolio, "none")
        ELSE RiskReturned("max_drawdown", data,
                 data.events \o <<Called("pct_change"), Called("cumprod")>>,
                 DrawdownReport,
                 IF observations(data) = 0 THEN "nan" ELSE "number")

RECURSIVE Draws(_)
Draws(simulations) ==
    IF simulations = 0 THEN <<>>
    ELSE Append(Draws(simulations - 1), Called("np.random.normal"))

\* lines 99-126: one draw of shocks per path, then the statistics of the final values
simulate(simulations, days, data, events, emptyPercentile) ==
    LET after == events \o Draws(simulations)
    IN  IF days = 0
        THEN \* portfolio_sims[-1, :] of an array without rows: IndexError
             RiskRaised("monte_carlo_simulation", data, after)
        ELSE IF simulations = 0
        THEN IF emptyPercentile = "raise"
             THEN RiskRaised("monte_carlo_simulation", data, after)
             ELSE RiskReturned("monte_carlo_simulation", data, after,
                               MonteCarloResults, "nan")
        ELSE RiskReturned("monte_carlo_simulation", data, after, MonteCarloResults,
                 IF observations(data) < 2 \/ data.weights_nan THEN "nan" ELSE "number")

\* a simulation that does not catch the factorization's error
monte_carlo_simulation_uncaught(simulations, days, queryOutcome, download, choleskyOutcome, emptyPercentile) ==
    LET data == _get_portfolio_data("1y", queryOutcome, download)
    IN  IF data.kind = "raise"
        THEN RiskRaised("monte_carlo_simulation", data, data.events)
        ELSE IF data.kind = "none"
        THEN RiskReturned("monte_carlo_simulation", data, data.events,
                          EmptyPortfolio, "none")
        ELSE LET events == data.events \o
                     <<Called("log_returns"), Called("cov"), Called("np.linalg.cholesky")>>
             IN  IF choleskyOutcome = "LinAlgError"
                 THEN RiskRaised("monte_carlo_simulation", data, events)
                 ELSE simulate(simulations, days, data, events, emptyPercentile)

\* lines 74-126: the covariance of the log returns is factored once, inside the
\* try; LinAlgError returns the message, anything else goes on to the paths
monte_carlo_simulation(simulations, days, queryOutcome, download, choleskyOutcome, emptyPercentile) ==
    LET data == _get_portfolio_data("1y", queryOutcome, download)
    IN  IF data.kind = "raise"
        THEN RiskRaised("monte_carlo_simulation", data, data.events)
        ELSE IF data.kind = "none"
        THEN RiskReturned("monte_carlo_simulation", data, data.events,
                          EmptyPortfolio, "none")
        ELSE LET events == data.events \o
                     <<Called("log_returns"), Called("cov"), Called("np.linalg.cholesky")>>
             IN  IF choleskyOutcome = "LinAlgError"
                 THEN RiskReturned("monte_carlo_simulation", data, events,
                                   NotPositiveDefinite, "none")
                 ELSE simulate(simulations, days, data, events, emptyPercentile)

\* --------------------------------------------------- portfolio_optimizer.py

CouldNotFetch == "Could not fetch data for ticker"
InsufficientOverlap == "Insufficient data overlap for optimization."
OptimizationFailed == "Optimization failed"
ErrOptimizing == "Error optimizing portfolio"
OptimalAllocation == "Optimal Allocation (Max Sharpe)"
RiskParityWeights == "Risk Parity Weights"

\* the lookback a caller may pass; "1y" is the default of the signature
Periods == {"1y", "6mo", "5d"}
\* the lists of tickers a caller may pass: no ticker twice
TickerLists ==
    {<<>>} \cup {<<a>> : a \in Symbols}
           \cup {t \in {<<a, b>> : a \in Symbols, b \in Symbols} : t[1] # t[2]}
\* what the yf.download of the local get_price does for one ticker: it raises, or
\* gives the ticker's closes on some of the dates 1 .. MaxRows (tickers of different
\* exchanges trade on different days); no date at all is an empty frame
FetchOutcomes ==
    {[kind |-> "raise", dates |-> {}]}
        \cup {[kind |-> "frame", dates |-> D] : D \in SUBSET (1 .. MaxRows)}
\* DataFrame.pct_change() on a frame with NaN: pandas before 3.0 fills forward
\* first (fill_method='pad' by default), pandas 3.0 does not fill
PctChangeFills == {"pad", "none"}
\* what scipy's minimize does: a result with success and message, or an exception
SolverOutcomes ==
    {[kind |-> "result", success |-> TRUE, message |-> "Optimization terminated successfully"],
     [kind |-> "result", success |-> FALSE, message |-> "Iteration limit reached"],
     [kind |-> "result", success |-> FALSE,
      message |-> "Positive directional derivative for linesearch"],
     [kind |-> "raise", success |-> FALSE, message |-> "exception"]}
\* weights are counted in thousandths: 0.01, the display threshold of line 100, is
\* WeightScale \div 100
WeightScale == 1000
DisplayThreshold == WeightScale \div 100
\* the annualized mean returns and the covariances the fetched prices may have
MeanReturns == {1, 2}
Covariances == {0, 1}
\* result.x of a successful result for n assets: weights at, just below and just
\* above the threshold, and far from it, summing to 1
WeightGrid ==
    {0, DisplayThreshold - 1, DisplayThreshold, DisplayThreshold + 1, WeightScale \div 2,
     WeightScale - DisplayThreshold - 1, WeightScale - DisplayThreshold,
     WeightScale - DisplayThreshold + 1, WeightScale}
RECURSIVE SumSeq(_, _)
SumSeq(x, k) == IF k = 0 THEN 0 ELSE SumSeq(x, k - 1) + x[k]
OptimalWeights(n) == {x \in [1 .. n -> WeightGrid] : SumSeq(x, n) = WeightScale}
\* lines 71-72: what returns.mean() * 252 and returns.cov() * 252 give for the
\* prices fetched: a mean per asset, unit variances and one covariance for all pairs
Moments(n) ==
    {[mean_returns |-> m,
      cov_matrix |-> [i \in 1 .. n |-> [j \in 1 .. n |-> IF i = j THEN 1 ELSE c]]] :
        m \in [1 .. n -> MeanReturns], c \in Covariances}

\* ['Close'] of a download: a frame, or for a single ticker a Series in the
\* yfinance releases that flatten the columns of a one-ticker download
CloseShapes == {"DataFrame", "Series"}

PriceFetched(ticker, period, interval) ==
    [call |-> "get_price", ticker |-> ticker, period |-> period, interval |-> interval]

\* the dates of S in ascending order
RECURSIVE SortedDates(_)
SortedDates(S) ==
    IF S = {} THEN <<>>
    ELSE LET lo == CHOOSE d \in S : \A e \in S : d <= e
         IN  <<lo>> \o SortedDates(S \ {lo})

\* lines 17-37: the JSON list of the ticker's bars, by their dates; the empty list
\* when the download raised or came back empty
get_price_local(ticker, period, interval, fetchOutcome) ==
    IF fetchOutcome.kind = "raise" THEN <<>>
    ELSE SortedDates(fetchOutcome.dates)

\* lines 47-60: the loop over tickers, from the k-th on; it stops at the first
\* ticker whose history is empty
RECURSIVE fetch_prices(_, _, _, _, _)
fetch_prices(tickers, lookback, fetches, k, sofar) ==
    IF k > Len(tickers) THEN [failed |-> "", events |-> sofar.events, data |-> sofar.data]
    ELSE LET ticker == tickers[k]
             history == get_price_local(ticker, "1y", "1d", fetches[k])
             events == Append(sofar.events, PriceFetched(ticker, "1y", "1d"))
         IN  IF history = <<>>
             THEN [failed |-> ticker, events |-> events, data |-> sofar.data]
             ELSE fetch_prices(tickers, lookback, fetches, k + 1,
                      [events |-> events, data |-> Append(sofar.data, history)])

\* lines 62-63: prices = pd.DataFrame(data) has a row for every date any ticker
\* has, NaN where a ticker has none; the dates of the rows that
\* prices.pct_change().dropna() keeps are those whose return is a number for every
\* ticker. Filling forward, a ticker has a return on a row once it had a close on
\* any earlier row; without filling, when it has a close on the row and the one before
aligned_returns(data, fill) ==
    LET DatesOf(i) == {data[i][k] : k \in 1 .. Len(data[i])}
        index == UNION {DatesOf(i) : i \in 1 .. Len(data)}
        Before(d) == {e \in index : e < d}
        Prev(d) == CHOOSE e \in Before(d) : \A x \in Before(d) : x <= e
        HasReturn(i, d) ==
            IF fill = "pad" THEN \E e \in DatesOf(i) : e <= Prev(d)
            ELSE d \in DatesOf(i) /\ Prev(d) \in DatesOf(i)
    IN  {d \in index : Before(d) # {} /\ \A i \in 1 .. Len(data) : HasReturn(i, d)}

OptRaised(op, tickers, lookback, events) ==
    [op |-> op, tickers |-> tickers, lookback |-> lookback, events |-> events,
     ret |-> NoneVal, message |-> "", figure |-> "none", raised |-> TRUE]
OptReturned(op, tickers, lookback, events, ret, message, figure) ==
    [op |-> op, tickers |-> tickers, lookback |-> lookback, events |-> events,
     ret |-> ret, message |-> message, figure |-> figure, raised |-> FALSE]

\* a call that reports an allocation whatever the solver said
solver_failed_ignored(tickers, lookback, events, result, observations_left) ==
    OptReturned("mean_variance_optimize", tickers, lookback, events,
                OptimalAllocation, "", IF observations_left < 2 THEN "nan" ELSE "number")

\* lines 93-95: if not result.success: return f"Optimization failed: {result.message}"
solver_failed(tickers, lookback, events, result, observations_left) ==
    OptReturned("mean_variance_optimize", tickers, lookback, events,
                OptimizationFailed, result.message, "none")

\* an allocation that also shows a weight of exactly 0.01
allocation_of_ge(tickers, x) ==
    {<<tickers[i], x[i]>> : i \in {k \in 1 .. Len(tickers) : x[k] >= DisplayThreshold}}

\* line 100: {ticker: weight for ticker, weight in zip(tickers, optimal_weights)
\* if weight > 0.01}
allocation_of(tickers, x) ==
    {<<tickers[i], x[i]>> : i \in {k \in 1 .. Len(tickers) : x[k] > DisplayThreshold}}

\* line 102: p_ret = np.sum(optimal_weights * mean_returns), in thousandths
p_ret_of(x, mean_returns) ==
    SumSeq([i \in 1 .. Len(x) |-> x[i] * mean_returns[i]], Len(x))
\* line 103 under the root: optimal_weights.T . cov_matrix . optimal_weights;
\* p_vol is its square root and sharpe is p_ret / p_vol
p_var_of(x, cov_matrix) ==
    SumSeq([i \in 1 .. Len(x) |->
               SumSeq([j \in 1 .. Len(x) |-> x[i] * cov_matrix[i][j] * x[j]], Len(x))],
           Len(x))

\* lines 97-114: the report of a successful result
solver_succeeded(tickers, lookback, events, x, moments, observations_left) ==
    [optimal_weights |-> x, mean_returns |-> moments.mean_returns,
     cov_matrix |-> moments.cov_matrix,
     allocation |-> allocation_of(tickers, x),
     p_ret |-> p_ret_of(x, moments.mean_returns),
     p_var |-> p_var_of(x, moments.cov_matrix)] @@
    OptReturned("mean_variance_optimize", tickers, lookback, events,
                OptimalAllocation, "",
                \* the covariance of a single observation is NaN, and so are
                \* the volatility and the Sharpe ratio
                IF observations_left < 2 THEN "nan" ELSE "number")

\* lines 39-118: everything runs inside try / except Exception
mean_variance_optimize(tickers, lookback, fetches, solverOutcome, fill, moments, x) ==
    LET fetched == fetch_prices(tickers, lookback, fetches, 1,
                                [events |-> <<>>, data |-> <<>>])
        returns == aligned_returns(fetched.data, fill)
        observations_left == Cardinality(returns)
        solved == Append(fetched.events, Called("minimize"))
    IN  IF fetched.failed # ""
        THEN OptReturned("mean_variance_optimize", tickers, lookback, fetched.events,
                         CouldNotFetch, fetched.failed, "none")
        ELSE IF observations_left = 0
        THEN OptReturned("mean_variance_optimize", tickers, lookback, fetched.events,
                         InsufficientOverlap, "", "none")
        ELSE IF solverOutcome.kind = "raise"
        THEN OptReturned("mean_variance_optimize", tickers, lookback, solved,
                         ErrOptimizing, solverOutcome.message, "none")
        ELSE IF ~solverOutcome.success
        THEN solver_failed(tickers, lookback, solved, solverOutcome, observations_left)
        ELSE solver_succeeded(tickers, lookback, solved, x, moments, observations_left)

\* lines 120-134: no try; a Series has std() but its float has no to_dict()
risk_parity(tickers, download, closeShape) ==
    LET events == <<Downloaded({tickers[i] : i \in 1 .. Len(tickers)}, "1y")>>
    IN  IF download.kind = "raise" \/ closeShape = "Series"
        THEN OptRaised("risk_parity", tickers, "1y", events)
        ELSE OptReturned("risk_parity", tickers, "1y",
                 events \o <<Called("pct_change"), Called("std")>>,
                 RiskParityWeights, "",
                 IF observations([tickers |-> {tickers[i] : i \in 1 .. Len(tickers)},
                                  rows |-> download.rows, first |-> download.first]) < 2
                 THEN "nan" ELSE "number")

\* ------------------------------------------------------------ market_data.py

\* bars in a fetched history
MaxBars == 2

\* line 23: @retry(times=3, delay=2)
RetryTimes == 3
RetryDelay == 2

NoDataFoundFor == "No data found for symbol"
ErrFetching == "Error fetching data for symbol"
ErrAfterRetries == "Error after 3 retries"
PriceJson == "JSON list of bars"

Intervals == {"1d", "1h"}
\* what one call of the decorated function meets: yf.Ticker(symbol) of line 40,
\* outside the try, raises; or, inside the try, ticker.history raises, gives an
\* empty frame, or gives bars
AttemptOutcomes ==
    {[kind |-> "ticker_raised", bars |-> 0], [kind |-> "history_raised", bars |-> 0],
     [kind |-> "empty", bars |-> 0]}
        \cup {[kind |-> "bars", bars |-> n] : n \in 1 .. MaxBars}

\* lines 24-74, the decorated function: what one call of it does, as a return value
\* or as the exception that leaves it
get_price(symbol, interval, period, outcome) ==
    IF outcome.kind = "ticker_raised" THEN [raised |-> TRUE, ret |-> NoneVal, bars |-> 0]
    ELSE IF outcome.kind = "history_raised"
    THEN \* lines 72-74: except Exception inside the function
         [raised |-> FALSE, ret |-> ErrFetching, bars |-> 0]
    ELSE IF outcome.kind = "empty"
    THEN [raised |-> FALSE, ret |-> NoDataFoundFor, bars |-> 0]
    ELSE [raised |-> FALSE, ret |-> PriceJson, bars |-> outcome.bars]

\* lines 13-19: one pass of "for i in range(times)" around a call of func
retry_pass(call, outcome) ==
    LET r == get_price(call.symbol, call.interval, call.period, outcome)
        tried == [call EXCEPT !.log = Append(@, outcome.kind)]
    IN  IF ~r.raised
        THEN [tried EXCEPT !.pc = "done", !.ret = r.ret, !.bars = r.bars]
        ELSE IF call.i = RetryTimes - 1
        THEN [tried EXCEPT !.pc = "done", !.ret = ErrAfterRetries]
        ELSE [tried EXCEPT !.i = @ + 1, !.sleeps = Append(@, RetryDelay)]

\* ------------------------------------------- the drawdown of a return series
\* risk_engine.py 67-70 and backtesting.py 50-53 compute the same figure from a
\* series of period returns.  A return is a multiple of 1/ReturnDen; the first
\* entry of the backtest's series is NaN (the shifted signal has no first bar).

ReturnDen == 2
MaxReturns == 4

\* the returns a series is drawn from: -(1 + 1/ReturnDen) up to +1.  A return
\* below -1 takes a short position that loses more than the portfolio is worth
ReturnValues == {Num(k, ReturnDen) : k \in (0 - ReturnDen - 1) .. ReturnDen}
ReturnSeries ==
    UNION {[1 .. n -> ReturnValues] : n \in 0 .. MaxReturns}
        \cup UNION {{<<NaN>> \o r : r \in [1 .. n -> ReturnValues]} : n \in 0 .. MaxReturns - 1}

\* n / d in lowest terms, d positive
Reduced(n, d) ==
    LET g == Gcd(IF n < 0 THEN 0 - n ELSE n, d)
    IN  Num(n \div g, d \div g)

\* a / b on floats: NaN when either side is NaN and for 0 / 0, an infinity
\* (den = 0) for a nonzero value over 0; the denominator is kept positive
Div(a, b) ==
    IF a.nan \/ b.nan THEN NaN
    ELSE IF b.num = 0
         THEN IF a.num = 0 THEN NaN ELSE Num(IF a.num > 0 THEN 1 ELSE 0 - 1, 0)
    ELSE IF b.num < 0 THEN Reduced(0 - a.num * b.den, 0 - a.den * b.num)
    ELSE Reduced(a.num * b.den, a.den * b.num)

\* a >= b on floats: False when either side is NaN
GE(a, b) == ~a.nan /\ ~b.nan /\ a.num * b.den >= b.num * a.den

\* (1 + r).cumprod(): the product of the entries so far, a NaN entry skipped and
\* left NaN
RECURSIVE ProdTo(_, _)
ProdTo(r, t) ==
    IF t = 0 THEN Num(1, 1)
    ELSE IF r[t].nan THEN ProdTo(r, t - 1)
    ELSE Mul(ProdTo(r, t - 1), Num(r[t].den + r[t].num, r[t].den))
cumprod(r) == Column([t \in 1 .. Len(r) |-> IF r[t].nan THEN NaN ELSE ProdTo(r, t)])

\* .expanding(min_periods=1).max(): the largest entry so far, NaN entries
\* skipped, NaN while there is none
RECURSIVE MaxTo(_, _)
MaxTo(c, t) ==
    IF t = 0 THEN NaN
    ELSE LET before == MaxTo(c, t - 1)
         IN  IF c[t].nan THEN before
             ELSE IF before.nan \/ GT(c[t], before) THEN c[t]
             ELSE before
expanding_max(c) == Column([t \in 1 .. Len(c) |-> MaxTo(c, t)])

\* the mutant of drawdown: the ratio to the peak, 1 not taken off
drawdown_ratio_only(cumulative_returns, peak) ==
    Column([t \in 1 .. Len(cumulative_returns) |-> Div(cumulative_returns[t], peak[t])])

\* (cumulative_returns / peak) - 1
drawdown(cumulative_returns, peak) ==
    Column([t \in 1 .. Len(cumulative_returns) |->
        LET q == Div(cumulative_returns[t], peak[t])
        IN  IF q.nan THEN NaN ELSE Num(q.num - q.den, q.den)])

\* .min(): the smallest entry, NaN entries skipped, NaN when there is none
RECURSIVE MinTo(_, _)
MinTo(c, t) ==
    IF t = 0 THEN NaN
    ELSE LET before == MinTo(c, t - 1)
         IN  IF c[t].nan THEN before
             ELSE IF before.nan \/ GT(before, c[t]) THEN c[t]
             ELSE before

\* max_dd of a series of returns
max_dd(port_returns) ==
    LET cumulative_returns == cumprod(port_returns)
        peak == expanding_max(cumulative_returns)
        dd == drawdown(cumulative_returns, peak)
    IN  MinTo(dd, Len(dd))

\* ------------------------------------------- the weights of a portfolio
\* risk_engine.py 21-25, computed from the quantities get_positions reports and
\* the closes of the last row of the frame.  The broker reports a short position
\* with a negative quantity (alpaca_broker.py:87) and no position of quantity 0.

MaxShares == 2

Quantities == ((0 - MaxShares) .. MaxShares) \ {0}
Holdings == UNION {[held -> Quantities] : held \in (SUBSET Symbols) \ {{}}}
\* the last row of the frame: a close for each symbol held, NaN for a symbol
\* whose fetch failed
LastRows(held) == [held -> {NaN} \cup {Num(p, 1) : p \in 1 .. MaxPrice}]

\* a + b on floats: NaN when either side is NaN, and for two infinities of
\* opposite sign
Add(a, b) ==
    IF a.nan \/ b.nan THEN NaN
    ELSE IF a.den = 0 /\ b.den = 0
         THEN IF a.num = b.num THEN a ELSE NaN
    ELSE IF a.den = 0 THEN a
    ELSE IF b.den = 0 THEN b
    ELSE Num(a.num * b.den + b.num * a.den, a.den * b.den)

\* Series.sum(): the sum of the entries that are not NaN, 0 when there is none
RECURSIVE SeriesSum(_, _)
SeriesSum(series, index) ==
    IF index = {} THEN Num(0, 1)
    ELSE LET s == CHOOSE t \in index : TRUE
             rest == SeriesSum(series, index \ {s})
         IN  IF series[s].nan THEN rest ELSE Add(series[s], rest)

\* line 22: values = current_prices * pd.Series(positions)
values_of(held, current_prices) ==
    [s \in DOMAIN held |-> Mul(current_prices[s], Num(held[s], 1))]

\* the mutant of weights_of: the quantities' shares, the prices left out
weights_by_quantity(held, current_prices) ==
    LET quantities == [s \in DOMAIN held |-> Num(held[s], 1)]
        total_quantity == SeriesSum(quantities, DOMAIN held)
    IN  [s \in DOMAIN held |-> Div(quantities[s], total_quantity)]

\* lines 22-25: weights = values / values.sum()
weights_of(held, current_prices) ==
    LET values == values_of(held, current_prices)
        total_value == SeriesSum(values, DOMAIN held)
    IN  [s \in DOMAIN held |-> Div(values[s], total_value)]

\* ----------------------------------------- the paths of the simulation
\* risk_engine.py 99-126 in numbers.  np.random.normal draws from numpy's global
\* generator, a deterministic machine whose state np.random.seed sets; the
\* function takes no seed, so a caller who wants a run again seeds the global
\* generator before the call.  The figures derived from the positions and the
\* history (mean_log_returns, L, weights) are the same in every call on the same
\* positions and history: they are taken as zero drift, L the identity and unit
\* weights, and the values are kept as logarithms (np.exp is applied to each).

RngModulus == 5
Seeds == {0, 1}

\* np.random.seed(s) that leaves the generator where it is
np_random_seed_ignored(state, s) == state

\* np.random.seed(s): the generator restarts from the state s stands for
np_random_seed(state, s) == s % RngModulus

\* one variate is drawn: the value the state gives, and the state after it
variate(state) == state - RngModulus \div 2
rng_step(state) == (state + 1) % RngModulus
RECURSIVE rng_after(_, _)
rng_after(state, k) == IF k = 0 THEN state ELSE rng_after(rng_step(state), k - 1)

\* line 102: Z = np.random.normal(size=(days, n)), filled row by row
normal(state, days, n) ==
    [d \in 1 .. days |-> [a \in 1 .. n |-> variate(rng_after(state, (d - 1) * n + a - 1))]]

RECURSIVE RowSum(_, _)
RowSum(row, n) == IF n = 0 THEN 0 ELSE RowSum(row, n - 1) + row[n]
\* lines 104-114: the cumulative log return at the last day of one path
RECURSIVE cum_log_ret(_, _, _)
cum_log_ret(Z, d, n) == IF d = 0 THEN 0 ELSE cum_log_ret(Z, d - 1, n) + RowSum(Z[d], n)

\* lines 101-117: final_values, path i drawn after the paths before it
final_values(state, simulations, days, n) ==
    [i \in 1 .. simulations |->
        cum_log_ret(normal(rng_after(state, (i - 1) * days * n), days, n), days, n)]

\* np.percentile(a, q): between the two order statistics around (len - 1) * q / 100
percentile(a, q) ==
    LET sorted == SortSeq(a, <)
        k == ((Len(a) - 1) * q) \div 100
    IN  [below |-> sorted[k + 1],
         above |-> sorted[IF k + 2 > Len(a) THEN Len(a) ELSE k + 2],
         fraction |-> ((Len(a) - 1) * q) % 100]

\* lines 117-120: the three figures of the report, from final_values
simulation_figures(state, simulations, days, n) ==
    LET final == final_values(state, simulations, days, n)
    IN  [expected_return |-> SortSeq(final, <),
         worst_case |-> percentile(final, 5),
         best_case |-> percentile(final, 95)]

\* ------------------------------------------------------------- watchlist.py

\* the symbols a caller may type, in the letter cases a caller may type them
TypedSymbols == {"aapl", "Aapl", "AAPL", "msft", "MSFT", "tsla", "TSLA"}

\* str.upper() on the symbols above
upper(symbol) ==
    IF symbol \in {"aapl", "Aapl", "AAPL"} THEN "AAPL"
    ELSE IF symbol \in {"msft", "MSFT"} THEN "MSFT"
    ELSE "TSLA"

Added == "Added to watchlist."
AlreadyIn == "is already in the watchlist."
Removed == "Removed from watchlist."
WasNotIn == "was not in the watchlist."

\* a file of no byte: it exists, and json.load does not read it
EmptyFile == [exists |-> TRUE, readable |-> FALSE, items |-> <<>>]
\* the file json.dump writes for a list
FileOf(items) == [exists |-> TRUE, readable |-> TRUE, items |-> items]

\* lines 9-16: [] when the file is absent or cannot be read
_load_watchlist(file) ==
    IF ~file.exists THEN <<>>
    ELSE IF ~file.readable THEN <<>>
    ELSE file.items

\* lines 18-20
_save_watchlist(items) == FileOf(items)

Elements(items) == {items[i] : i \in 1 .. Len(items)}

\* list.remove(x): the list without the first x
remove(items, x) ==
    LET at == CHOOSE i \in 1 .. Len(items) :
                  items[i] = x /\ \A j \in 1 .. i - 1 : items[j] # x
    IN  SubSeq(items, 1, at - 1) \o SubSeq(items, at + 1, Len(items))

\* an add_to_watchlist that stores the symbol as typed
add_to_watchlist_as_typed(file, symbol) ==
    LET stored == _load_watchlist(file)
    IN  IF symbol \notin Elements(stored)
        THEN [file |-> _save_watchlist(Append(stored, symbol)), ret |-> Added]
        ELSE [file |-> file, ret |-> AlreadyIn]

\* lines 22-33: the file after the call, and the string returned
add_to_watchlist(file, symbol) ==
    LET upper_symbol == upper(symbol)
        stored == _load_watchlist(file)
    IN  IF upper_symbol \notin Elements(stored)
        THEN [file |-> _save_watchlist(Append(stored, upper_symbol)), ret |-> Added]
        ELSE [file |-> file, ret |-> AlreadyIn]

\* lines 35-46
remove_from_watchlist(file, symbol) ==
    LET upper_symbol == upper(symbol)
        stored == _load_watchlist(file)
    IN  IF upper_symbol \in Elements(stored)
        THEN [file |-> _save_watchlist(remove(stored, upper_symbol)), ret |-> Removed]
        ELSE [file |-> file, ret |-> WasNotIn]

\* ------------------------------------------------------------ the actions

TypeOK ==
    /\ broker \in BrokerStates
    /\ cash \in CashValues
    /\ positions \in [Symbols -> 0 .. MaxHeld]

Init ==
    /\ broker \in BrokerStates
    /\ cash \in CashValues
    /\ positions \in [Symbols -> 0 .. MaxHeld]
    /\ last = NoCall
    /\ bt = NoRun
    /\ wf = NoRun
    /\ risk = NoRun
    /\ opt = NoRun
    /\ md = NoRun
    /\ calc = NoRun
    /\ rng = 0
    /\ watchlist = NoFile

\* the broker's ledger moves between calls (fills, deposits, withdrawals)
AccountUpdate ==
    /\ broker = "ok"
    /\ last = NoCall
    /\ \E c \in CashValues, p \in [Symbols -> 0 .. MaxHeld] :
        /\ <<c, p>> # <<cash, positions>>
        /\ cash' = c
        /\ positions' = p
    /\ UNCHANGED <<broker, last, bt, wf, risk, opt, md, calc, rng, watchlist>>

\* a caller consults the gate directly
ValidateTrade ==
    /\ last = NoCall
    /\ \E symbol \in Symbols, side \in Sides, qty \in Qtys, current_price \in Prices :
        last' = [op |-> "validate_trade", held |-> positions[symbol],
                 events |-> <<GateCall(symbol, side, qty, current_price,
                                       validate_trade(symbol, side, qty, current_price))>>]
    /\ UNCHANGED <<broker, cash, positions, bt, wf, risk, opt, md, calc, rng, watchlist>>

\* a caller places an order
PlaceOrder ==
    /\ last = NoCall
    /\ \E symbol \in Symbols, side \in Sides, qty \in Qtys, order_type \in OrderTypes,
          limit_price \in LimitPrices, priceOutcome \in PriceOutcomes,
          submitOutcome \in SubmitOutcomes :
        LET r == place_order(symbol, side, qty, order_type, limit_price,
                             priceOutcome, submitOutcome)
        IN  last' = [op |-> "place_order", symbol |-> symbol, side |-> side,
                     qty |-> qty, order_type |-> order_type, limit |-> limit_price,
                     events |-> r.events, ret |-> r.ret, raised |-> r.raised]
    /\ UNCHANGED <<broker, cash, positions, bt, wf, risk, opt, md, calc, rng, watchlist>>

\* the caller takes the result; the next call starts from there
Return ==
    /\ last # NoCall
    /\ last' = NoCall
    /\ UNCHANGED <<broker, cash, positions, bt, wf, risk, opt, md, calc, rng, watchlist>>

Next == AccountUpdate \/ ValidateTrade \/ PlaceOrder \/ Return

Spec == Init /\ [][Next]_vars

\* ------------------------------------------------- the backtest's actions

InitBacktest ==
    /\ broker = "ok"
    /\ cash = 0
    /\ positions = [s \in Symbols |-> 0]
    /\ last = NoCall
    /\ bt = NoRun
    /\ wf = NoRun
    /\ risk = NoRun
    /\ opt = NoRun
    /\ md = NoRun
    /\ calc = NoRun
    /\ rng = 0
    /\ watchlist = NoFile

RunBacktest ==
    /\ bt = NoRun
    /\ \E data \in FetchedData, fast_ma \in Windows, slow_ma \in Windows,
          start_date \in StartDates, end_date \in EndDates :
        bt' = [data |-> data, start_date |-> start_date, end_date |-> end_date] @@
              run_backtest(data, fast_ma, slow_ma, start_date, end_date)
    /\ UNCHANGED <<broker, cash, positions, last, wf, risk, opt, md, calc, rng, watchlist>>

\* the caller takes the report
BacktestReturn ==
    /\ bt # NoRun
    /\ bt' = NoRun
    /\ UNCHANGED <<broker, cash, positions, last, wf, risk, opt, md, calc, rng, watchlist>>

NextBacktest == RunBacktest \/ BacktestReturn

SpecBacktest == InitBacktest /\ [][NextBacktest]_vars

\* --------------------------------------------- the walk-forward's actions

InitWalkForward ==
    /\ broker = "ok"
    /\ cash = 0
    /\ positions = [s \in Symbols |-> 0]
    /\ last = NoCall
    /\ bt = NoRun
    /\ wf = NoRun
    /\ risk = NoRun
    /\ opt = NoRun
    /\ md = NoRun
    /\ calc = NoRun
    /\ rng = 0
    /\ watchlist = NoFile

\* lines 79-100: the fetch, the window lengths, current_idx = 0
WalkForwardStart ==
    /\ wf = NoRun
    /\ \E series \in WfSeries, n \in WfLengths, train_months \in TrainMonths,
          test_months \in TestMonths :
        LET train_len == train_months * TradingDaysPerMonth
            test_len == test_months * TradingDaysPerMonth
        IN  wf' = [op |-> "walk_forward_analysis",
                   pc |-> IF n = 0 THEN "done" ELSE "loop",
                   series |-> series, n |-> n,
                   train_months |-> train_months, test_months |-> test_months,
                   train_len |-> train_len, test_len |-> test_len,
                   step |-> wf_step(train_len, test_len),
                   current_idx |-> 0, results |-> <<>>, total |-> 0,
                   ret |-> IF n = 0 THEN NoDataFoundWf ELSE NoneVal]
    /\ UNCHANGED <<broker, cash, positions, last, bt, risk, opt, md, calc, rng, watchlist>>

\* lines 101-137: one pass of the while loop
WalkForwardWindow ==
    /\ wf # NoRun
    /\ wf.pc = "loop"
    /\ wf_loop_condition(wf.current_idx, wf.train_len, wf.test_len, wf.n)
    /\ LET w == wf_window(wf.series, wf.n, wf.current_idx, wf.train_len, wf.test_len)
       IN  IF w.test_last < w.test_first
           THEN \* test_data.index[0] of an empty window: IndexError, which nothing catches
                wf' = [wf EXCEPT !.pc = "raised"]
           ELSE wf' = [wf EXCEPT !.results = Append(@, w),
                                 !.current_idx = @ + wf.step]
    /\ UNCHANGED <<broker, cash, positions, last, bt, risk, opt, md, calc, rng, watchlist>>

\* lines 139-147: the loop is over, the report is formatted
WalkForwardReport ==
    /\ wf # NoRun
    /\ wf.pc = "loop"
    /\ ~wf_loop_condition(wf.current_idx, wf.train_len, wf.test_len, wf.n)
    /\ wf' = [wf EXCEPT !.pc = "done", !.ret = WalkForwardResults,
                        !.total = total_ret(wf.results, Len(wf.results))]
    /\ UNCHANGED <<broker, cash, positions, last, bt, risk, opt, md, calc, rng, watchlist>>

\* the caller takes the report, or the exception
WalkForwardReturn ==
    /\ wf # NoRun
    /\ wf.pc \in {"done", "raised"}
    /\ wf' = NoRun
    /\ UNCHANGED <<broker, cash, positions, last, bt, risk, opt, md, calc, rng, watchlist>>

NextWalkForward ==
    WalkForwardStart \/ WalkForwardWindow \/ WalkForwardReport \/ WalkForwardReturn

SpecWalkForward == InitWalkForward /\ [][NextWalkForward]_vars

\* a call that has started runs on: the interpreter executes the loop's passes
\* and the report one after another, and no pass waits for anything
SpecWalkForwardFair ==
    SpecWalkForward /\ WF_vars(WalkForwardWindow \/ WalkForwardReport)

\* ------------------------------------------------ the analytics' actions

InitRisk ==
    /\ broker \in BrokerStates
    /\ cash = 0
    /\ positions \in [Symbols -> 0 .. MaxHeld]
    /\ last = NoCall
    /\ bt = NoRun
    /\ wf = NoRun
    /\ risk = NoRun
    /\ opt = NoRun
    /\ md = NoRun
    /\ calc = NoRun
    /\ rng = 0
    /\ watchlist = NoFile

\* the tickers a call made now would download
HeldNow(queryOutcome) == DOMAIN get_positions(queryOutcome).positions

PortfolioRisk ==
    /\ risk = NoRun
    /\ \E queryOutcome \in QueryOutcomes :
       \E download \in DownloadOutcomes(HeldNow(queryOutcome)) :
           risk' = [query |-> queryOutcome] @@ portfolio_risk(queryOutcome, download)
    /\ UNCHANGED <<broker, cash, positions, last, bt, wf, opt, md, calc, rng, watchlist>>

Var ==
    /\ risk = NoRun
    /\ \E queryOutcome \in QueryOutcomes, emptyPercentile \in EmptyPercentileOutcomes :
       \E download \in DownloadOutcomes(HeldNow(queryOutcome)) :
           risk' = [query |-> queryOutcome] @@ var(queryOutcome, download, emptyPercentile)
    /\ UNCHANGED <<broker, cash, positions, last, bt, wf, opt, md, calc, rng, watchlist>>

MaxDrawdown ==
    /\ risk = NoRun
    /\ \E queryOutcome \in QueryOutcomes :
       \E download \in DownloadOutcomes(HeldNow(queryOutcome)) :
           risk' = [query |-> queryOutcome] @@ max_drawdown(queryOutcome, download)
    /\ UNCHANGED <<broker, cash, positions, last, bt, wf, opt, md, calc, rng, watchlist>>

MonteCarloSimulation ==
    /\ risk = NoRun
    /\ \E simulations \in Simulations, days \in Days, queryOutcome \in QueryOutcomes,
          choleskyOutcome \in CholeskyOutcomes,
          emptyPercentile \in EmptyPercentileOutcomes :
       \E download \in DownloadOutcomes(HeldNow(queryOutcome)) :
           risk' = [query |-> queryOutcome, simulations |-> simulations,
                    days |-> days, cholesky |-> choleskyOutcome] @@
                   monte_carlo_simulation(simulations, days, queryOutcome, download,
                                          choleskyOutcome, emptyPercentile)
    /\ UNCHANGED <<broker, cash, positions, last, bt, wf, opt, md, calc, rng, watchlist>>

\* the caller takes the result, or the exception
RiskReturn ==
    /\ risk # NoRun
    /\ risk' = NoRun
    /\ UNCHANGED <<broker, cash, positions, last, bt, wf, opt, md, calc, rng, watchlist>>

NextRisk == PortfolioRisk \/ Var \/ MaxDrawdown \/ MonteCarloSimulation \/ RiskReturn

SpecRisk == InitRisk /\ [][NextRisk]_vars

\* ------------------------------------------------ the optimizer's actions

InitOptimize ==
    /\ broker = "ok"
    /\ cash = 0
    /\ positions = [s \in Symbols |-> 0]
    /\ last = NoCall
    /\ bt = NoRun
    /\ wf = NoRun
    /\ risk = NoRun
    /\ opt = NoRun
    /\ md = NoRun
    /\ calc = NoRun
    /\ rng = 0
    /\ watchlist = NoFile

MeanVarianceOptimize ==
    /\ opt = NoRun
    /\ \E tickers \in TickerLists, lookback \in Periods, solverOutcome \in SolverOutcomes,
          fill \in PctChangeFills :
       \E fetches \in [1 .. Len(tickers) -> FetchOutcomes],
          moments \in Moments(Len(tickers)), x \in OptimalWeights(Len(tickers)) :
           opt' = [fetches |-> fetches, solver |-> solverOutcome, fill |-> fill] @@
                  mean_variance_optimize(tickers, lookback, fetches, solverOutcome, fill,
                                         moments, x)
    /\ UNCHANGED <<broker, cash, positions, last, bt, wf, risk, md, calc, rng, watchlist>>

RiskParity ==
    /\ opt = NoRun
    /\ \E tickers \in TickerLists \ {<<>>}, closeShape \in CloseShapes :
       \E download \in DownloadOutcomes({tickers[i] : i \in 1 .. Len(tickers)}) :
           /\ closeShape = "Series" => Len(tickers) = 1
           /\ opt' = risk_parity(tickers, download, closeShape)
    /\ UNCHANGED <<broker, cash, positions, last, bt, wf, risk, md, calc, rng, watchlist>>

\* the caller takes the result, or the exception
OptimizeReturn ==
    /\ opt # NoRun
    /\ opt' = NoRun
    /\ UNCHANGED <<broker, cash, positions, last, bt, wf, risk, md, calc, rng, watchlist>>

NextOptimize == MeanVarianceOptimize \/ RiskParity \/ OptimizeReturn

SpecOptimize == InitOptimize /\ [][NextOptimize]_vars

\* ------------------------------------------------- get_price's actions

InitGetPrice ==
    /\ broker = "ok"
    /\ cash = 0
    /\ positions = [s \in Symbols |-> 0]
    /\ last = NoCall
    /\ bt = NoRun
    /\ wf = NoRun
    /\ risk = NoRun
    /\ opt = NoRun
    /\ md = NoRun
    /\ calc = NoRun
    /\ rng = 0
    /\ watchlist = NoFile

\* a caller calls get_price: the wrapper's loop starts at i = 0
GetPriceCall ==
    /\ md = NoRun
    /\ \E symbol \in Symbols, interval \in Intervals, period \in Periods :
        md' = [op |-> "get_price", pc |-> "loop", symbol |-> symbol,
               interval |-> interval, period |-> period, i |-> 0,
               log |-> <<>>, sleeps |-> <<>>, ret |-> NoneVal, bars |-> 0]
    /\ UNCHANGED <<broker, cash, positions, last, bt, wf, risk, opt, calc, rng, watchlist>>

\* one pass of the wrapper's loop: a call of the function, and the sleep after a
\* failure that was not the last
GetPriceAttempt ==
    /\ md # NoRun
    /\ md.pc = "loop"
    /\ \E outcome \in AttemptOutcomes : md' = retry_pass(md, outcome)
    /\ UNCHANGED <<broker, cash, positions, last, bt, wf, risk, opt, calc, rng, watchlist>>

\* the caller takes the result
GetPriceReturn ==
    /\ md # NoRun
    /\ md.pc = "done"
    /\ md' = NoRun
    /\ UNCHANGED <<broker, cash, positions, last, bt, wf, risk, opt, calc, rng, watchlist>>

NextGetPrice == GetPriceCall \/ GetPriceAttempt \/ GetPriceReturn

SpecGetPrice == InitGetPrice /\ [][NextGetPrice]_vars

\* --------------------------------------------------- the drawdown's actions

InitDrawdown ==
    /\ broker = "ok"
    /\ cash = 0
    /\ positions = [s \in Symbols |-> 0]
    /\ last = NoCall
    /\ bt = NoRun
    /\ wf = NoRun
    /\ risk = NoRun
    /\ opt = NoRun
    /\ md = NoRun
    /\ calc = NoRun
    /\ rng = 0
    /\ watchlist = NoFile

\* the figure is computed from a series of returns
ComputeDrawdown ==
    /\ calc = NoRun
    /\ \E port_returns \in ReturnSeries :
        calc' = [op |-> "max_dd", port_returns |-> port_returns,
                 max_dd |-> max_dd(port_returns)]
    /\ UNCHANGED <<broker, cash, positions, last, bt, wf, risk, opt, md, rng, watchlist>>

\* the figure is formatted into the report
DrawdownReturn ==
    /\ calc # NoRun
    /\ calc.op = "max_dd"
    /\ calc' = NoRun
    /\ UNCHANGED <<broker, cash, positions, last, bt, wf, risk, opt, md, rng, watchlist>>

NextDrawdown == ComputeDrawdown \/ DrawdownReturn

SpecDrawdown == InitDrawdown /\ [][NextDrawdown]_vars

\* ----------------------------------------------------- the weights' actions

InitWeights ==
    /\ broker = "ok"
    /\ cash = 0
    /\ positions = [s \in Symbols |-> 0]
    /\ last = NoCall
    /\ bt = NoRun
    /\ wf = NoRun
    /\ risk = NoRun
    /\ opt = NoRun
    /\ md = NoRun
    /\ calc = NoRun
    /\ rng = 0
    /\ watchlist = NoFile

\* _get_portfolio_data derives the weights of what is held
ComputeWeights ==
    /\ calc = NoRun
    /\ \E held \in Holdings : \E current_prices \in LastRows(DOMAIN held) :
        calc' = [op |-> "weights", held |-> held, current_prices |-> current_prices,
                 weights |-> weights_of(held, current_prices)]
    /\ UNCHANGED <<broker, cash, positions, last, bt, wf, risk, opt, md, rng, watchlist>>

\* the frame and the weights go back to the analytic that asked
WeightsReturn ==
    /\ calc # NoRun
    /\ calc.op = "weights"
    /\ calc' = NoRun
    /\ UNCHANGED <<broker, cash, positions, last, bt, wf, risk, opt, md, rng, watchlist>>

NextWeights == ComputeWeights \/ WeightsReturn

SpecWeights == InitWeights /\ [][NextWeights]_vars

\* -------------------------------------------------- the simulation's actions
\* risk holds the last invocation and calc the one before it.  An invocation
\* of no path or of no day draws nothing and reports no figure (simulate, above):
\* the invocations here have at least one of each.

InitMonteCarlo ==
    /\ broker = "ok"
    /\ cash = 0
    /\ positions = [s \in Symbols |-> 0]
    /\ last = NoCall
    /\ bt = NoRun
    /\ wf = NoRun
    /\ risk = NoRun
    /\ opt = NoRun
    /\ md = NoRun
    /\ calc = NoRun
    /\ rng \in 0 .. RngModulus - 1
    /\ watchlist = NoFile

\* the invocation from the generator's state "from"
Invocation(seeded, seed, from, simulations, days, n) ==
    [op |-> "monte_carlo_simulation", seeded |-> seeded, seed |-> seed, simulations |-> simulations,
     days |-> days, held |-> n] @@ simulation_figures(from, simulations, days, n)

\* a caller seeds the generator and runs the simulation
SeededSimulation ==
    /\ \E s \in Seeds, simulations \in 1 .. MaxSims, days \in 1 .. MaxDays,
          n \in 1 .. Cardinality(Symbols) :
        LET from == np_random_seed(rng, s)
        IN  /\ risk' = Invocation(TRUE, s, from, simulations, days, n)
            /\ rng' = rng_after(from, simulations * days * n)
    /\ calc' = risk
    /\ UNCHANGED <<broker, cash, positions, last, bt, wf, opt, md, watchlist>>

\* a caller runs the simulation on the generator as it stands
UnseededSimulation ==
    /\ \E simulations \in 1 .. MaxSims, days \in 1 .. MaxDays,
          n \in 1 .. Cardinality(Symbols) :
        /\ risk' = Invocation(FALSE, 0, rng, simulations, days, n)
        /\ rng' = rng_after(rng, simulations * days * n)
    /\ calc' = risk
    /\ UNCHANGED <<broker, cash, positions, last, bt, wf, opt, md, watchlist>>

NextMonteCarlo == SeededSimulation \/ UnseededSimulation

SpecMonteCarlo == InitMonteCarlo /\ [][NextMonteCarlo]_vars

\* --------------------------------------------------- the watchlist's actions
\* last holds the last call: the symbol typed, the file before it, the string
\* returned.

InitWatchlist ==
    /\ broker = "ok"
    /\ cash = 0
    /\ positions = [s \in Symbols |-> 0]
    /\ last = NoCall
    /\ bt = NoRun
    /\ wf = NoRun
    /\ risk = NoRun
    /\ opt = NoRun
    /\ md = NoRun
    /\ calc = NoRun
    /\ rng = 0
    /\ watchlist \in {NoFile, EmptyFile, FileOf(<<>>)}

AddToWatchlist ==
    /\ \E symbol \in TypedSymbols :
        LET r == add_to_watchlist(watchlist, symbol)
        IN  /\ watchlist' = r.file
            /\ last' = [op |-> "add_to_watchlist", symbol |-> symbol,
                        before |-> watchlist, ret |-> r.ret]
    /\ UNCHANGED <<broker, cash, positions, bt, wf, risk, opt, md, calc, rng>>

RemoveFromWatchlist ==
    /\ \E symbol \in TypedSymbols :
        LET r == remove_from_watchlist(watchlist, symbol)
        IN  /\ watchlist' = r.file
            /\ last' = [op |-> "remove_from_watchlist", symbol |-> symbol,
                        before |-> watchlist, ret |-> r.ret]
    /\ UNCHANGED <<broker, cash, positions, bt, wf, risk, opt, md, calc, rng>>

NextWatchlist == AddToWatchlist \/ RemoveFromWatchlist

SpecWatchlist == InitWatchlist /\ [][NextWatchlist]_vars

\* ------------------------------------------------- the trade gate's claims

\* the gate calls the last call made, directly or inside place_order
GateCalls ==
    IF last.op \in {"validate_trade", "place_order"}
    THEN {last.events[i] : i \in {j \in DOMAIN last.events :
                                      last.events[j].call = "validate_trade"}}
    ELSE {}

IsSubmit(e) == e.call \in {"submit_market_order", "submit_limit_order"}

\* C1: a buy of a positive quantity is permitted (None) exactly when
\* qty * current_price <= 50% of cash, and is rejected with the cash message
\* exactly when it is larger; a trade of exactly half the cash passes.
C1_BuyCapBoundary ==
    \A g \in GateCalls :
        (g.side = "buy" /\ g.qty > 0) =>
            /\ (g.ret = NoneVal) <=> (2 * g.qty * g.price <= g.cash)
            /\ (g.ret = RejectCash) <=> (2 * g.qty * g.price > g.cash)
            /\ g.ret \in {NoneVal, RejectCash}

C1_Witness ==
    \E g \in GateCalls :
        /\ g.side = "buy" /\ g.qty > 0 /\ g.cash > 0
        /\ 2 * g.qty * g.price = g.cash
        /\ g.ret = NoneVal

\* C2: a quantity <= 0 is rejected (never None) on either side, at any price
\* and any cash balance, zero and negative included.
C2_NonPositiveQtyRejected ==
    \A g \in GateCalls : g.qty <= 0 => g.ret \in {RejectCash, RejectQty}

C2_Witness ==
    /\ last.op = "validate_trade"
    /\ \E g \in GateCalls :
        g.qty <= 0 /\ g.side = "buy" /\ g.cash >= 0 /\ g.price > 0 /\ g.ret = RejectQty

\* C3: inside place_order every submit_market_order or submit_limit_order call
\* comes after a validate_trade call of the same place_order call, on the same
\* symbol, side and qty, that returned None.
C3_GateBeforeSubmit ==
    last.op = "place_order" =>
        \A i \in DOMAIN last.events :
            IsSubmit(last.events[i]) =>
                \E j \in 1 .. (i - 1) :
                    /\ last.events[j].call = "validate_trade"
                    /\ last.events[j].symbol = last.events[i].symbol
                    /\ last.events[j].side = last.events[i].side
                    /\ last.events[j].qty = last.events[i].qty
                    /\ last.events[j].symbol = last.symbol
                    /\ last.events[j].side = last.side
                    /\ last.events[j].qty = last.qty
                    /\ last.events[j].ret = NoneVal

C3_Witness ==
    /\ last.op = "place_order"
    /\ last.ret = LimitSubmitted
    /\ \E i \in DOMAIN last.events : last.events[i].call = "submit_limit_order"

\* C4: when the gate rejects inside place_order, place_order returns the
\* gate's message, raises nothing, and hands no order to the broker.
C4_RejectionReturned ==
    last.op = "place_order" =>
        \A g \in GateCalls :
            g.ret # NoneVal =>
                /\ last.ret = g.ret
                /\ ~last.raised
                /\ \A i \in DOMAIN last.events : ~IsSubmit(last.events[i])

C4_Witness ==
    /\ last.op = "place_order"
    /\ last.order_type = "market"
    /\ last.ret = RejectCash
    /\ \E g \in GateCalls : g.ret = RejectCash

\* C5: a sell of a positive quantity is always permitted, whatever the price,
\* the cash and the quantity held: the sell side has no size limit.
C5_SellUncapped ==
    \A g \in GateCalls : (g.side = "sell" /\ g.qty > 0) => g.ret = NoneVal

C5_Witness ==
    /\ last.op = "validate_trade"
    /\ \E g \in GateCalls :
        /\ g.side = "sell" /\ g.qty > last.held
        /\ 2 * g.qty * g.price > g.cash
        /\ g.ret = NoneVal

\* --------------------------------------------------- the backtest's claims

BtDone == bt.op = "run_backtest" /\ bt.ret = BacktestResults

\* day k is the first day the fast average is above the slow one
FirstCross(k) ==
    /\ k >= 2
    /\ bt.Signal[k] = 1
    /\ \A j \in 1 .. (k - 1) : bt.Signal[j] = 0

\* C6: in run_backtest the strategy return of every day t after the first is
\* the market return of day t (the close-to-close change) times the signal of
\* day t-1, the signal being 1 exactly where the fast average is above the slow
\* one; on the day k the fast average first exceeds the slow one the strategy
\* return is 0, and on day k+1 it is the market return of day k+1.
C6_StrategyReturnUsesPreviousSignal ==
    BtDone =>
        LET n == Len(bt.Close)
            MR(t) == Num(bt.Close[t] - bt.Close[t - 1], bt.Close[t - 1])
            Above(t) ==
                /\ t >= bt.fast /\ t >= bt.slow
                /\ SumRange(bt.Close, t - bt.fast + 1, t) * bt.slow
                       > SumRange(bt.Close, t - bt.slow + 1, t) * bt.fast
        IN  /\ Len(bt.Strategy_Return) = n
            /\ \A t \in 1 .. n : bt.Signal[t] = (IF Above(t) THEN 1 ELSE 0)
            /\ \A t \in 2 .. n :
                /\ RatEq(bt.Market_Return[t], MR(t))
                /\ RatEq(bt.Strategy_Return[t],
                         Num(MR(t).num * bt.Signal[t - 1], MR(t).den))
            /\ \A k \in 2 .. n :
                FirstCross(k) =>
                    /\ RatEq(bt.Strategy_Return[k], Num(0, 1))
                    /\ k + 1 <= n => RatEq(bt.Strategy_Return[k + 1], MR(k + 1))

C6_Witness ==
    /\ BtDone
    /\ \E k \in 2 .. (Len(bt.Close) - 1) :
        /\ FirstCross(k)
        /\ bt.Close[k] # bt.Close[k - 1]
        /\ bt.Close[k + 1] # bt.Close[k]
        /\ RatEq(bt.Strategy_Return[k], Num(0, 1))
        /\ ~RatEq(bt.Strategy_Return[k + 1], Num(0, 1))

\* ----------------------------------------------- the walk-forward's claims

WfCalled == wf.op = "walk_forward_analysis"
\* the bars lo .. hi of a window
Bars(lo, hi) == lo .. hi
TrainBars(w) == Bars(w.train_first, w.train_last)
TestBars(w) == Bars(w.test_first, w.test_last)

\* C7: with train_months >= 1 and test_months >= 1 the test windows of
\* consecutive iterations are contiguous, test window i+1 starting at the bar
\* right after the last bar of test window i, and no bar is in two test windows.
C7_TestWindowsTile ==
    (WfCalled /\ wf.train_months >= 1 /\ wf.test_months >= 1) =>
        /\ \A i \in 1 .. (Len(wf.results) - 1) :
            wf.results[i + 1].test_first = wf.results[i].test_last + 1
        /\ \A i, j \in DOMAIN wf.results :
            i # j => TestBars(wf.results[i]) \cap TestBars(wf.results[j]) = {}

C7_Witness ==
    /\ WfCalled
    /\ wf.train_months >= 1 /\ wf.test_months >= 1
    /\ wf.train_len # wf.test_len
    /\ Len(wf.results) >= 3

\* C8, as claimed: train window i+1 starts at the bar right after the last bar
\* of test window i, and shares no bar with train window i or test window i.
C8_TrainStartsAfterPreviousTest ==
    WfCalled =>
        \A i \in 1 .. (Len(wf.results) - 1) :
            /\ wf.results[i + 1].train_first = wf.results[i].test_last + 1
            /\ TrainBars(wf.results[i + 1]) \cap TrainBars(wf.results[i]) = {}
            /\ TrainBars(wf.results[i + 1]) \cap TestBars(wf.results[i]) = {}

\* C8, amended: train window i+1 starts 21*test_months bars after train window
\* i started and ends on the last bar of test window i; with train_months >= 1
\* it therefore shares that bar with test window i instead of starting after it.
C8_TrainEndsWherePreviousTestEnded ==
    WfCalled =>
        \A i \in 1 .. (Len(wf.results) - 1) :
            /\ wf.results[i + 1].train_first
                   = wf.results[i].train_first + TradingDaysPerMonth * wf.test_months
            /\ wf.results[i + 1].train_last = wf.results[i].test_last
            /\ wf.train_months >= 1 =>
                   wf.results[i].test_last
                       \in TrainBars(wf.results[i + 1]) \cap TestBars(wf.results[i])

C8_Witness ==
    /\ WfCalled
    /\ wf.train_months >= 1
    /\ Len(wf.results) >= 2
    /\ wf.results[2].train_first < wf.results[1].test_last + 1
    /\ TrainBars(wf.results[2]) \cap TestBars(wf.results[1]) # {}

\* C9: every (train, test) pair has a train window of exactly 21*train_months
\* consecutive bars and a test window of exactly 21*test_months consecutive
\* bars, the test window begins at the bar right after the train window's
\* last bar, and the start index advances by exactly 21*test_months from one
\* pair to the next.
C9_WindowGeometry ==
    WfCalled =>
        \A i \in DOMAIN wf.results :
            LET w == wf.results[i]
            IN  /\ Cardinality(TrainBars(w)) = TradingDaysPerMonth * wf.train_months
                /\ Cardinality(TestBars(w)) = TradingDaysPerMonth * wf.test_months
                /\ w.test_first = w.train_last + 1
                /\ TrainBars(w) \cap TestBars(w) = {}
                /\ TestBars(w) \subseteq 0 .. (wf.n - 1)
                /\ i > 1 => w.train_first - wf.results[i - 1].train_first
                                = TradingDaysPerMonth * wf.test_months

C9_Witness ==
    /\ WfCalled
    /\ wf.pc = "done"
    /\ wf.train_months >= 2
    /\ Len(wf.results) >= 2

\* C10: the pair reported for every window is in {10,20,50} x {50,100,200} with
\* fast < slow; (50,50) is never evaluated, and the placeholder (0,0) is never
\* reported.
C10_SelectedPairInGrid ==
    WfCalled =>
        \A i \in DOMAIN wf.results :
            LET w == wf.results[i]
            IN  /\ w.best_params[1] \in {10, 20, 50}
                /\ w.best_params[2] \in {50, 100, 200}
                /\ w.best_params[1] < w.best_params[2]
                /\ w.best_params # <<0, 0>>
                /\ \A k \in DOMAIN w.evaluated :
                    /\ w.evaluated[k] # <<50, 50>>
                    /\ w.evaluated[k][1] < w.evaluated[k][2]

C10_Witness ==
    /\ WfCalled
    /\ wf.pc = "done"
    /\ \E i \in DOMAIN wf.results :
        /\ wf.results[i].best_params = <<20, 50>>
        /\ wf.results[i].best_perf > 0
        /\ Len(wf.results[i].evaluated) = 8

\* the k-th pair of the grid in loop order: fast ascending, then slow ascending
GridPair(k) ==
    <<fast_params[((k - 1) \div Len(slow_params)) + 1],
      slow_params[((k - 1) % Len(slow_params)) + 1]>>
GridSize == Len(fast_params) * Len(slow_params)
ValidPairs == {k \in 1 .. GridSize : GridPair(k)[1] < GridPair(k)[2]}
\* the training closes of window w of the call in progress
TrainClose(w) ==
    iloc(wf.series, wf.n, w.train_first, w.train_first + wf.train_len).close
\* the summed training return of every valid pair on window w
TrainPerf(w) ==
    LET train == TrainClose(w)
    IN  [k \in ValidPairs |-> ma_perf(train, GridPair(k)[1], GridPair(k)[2])]

\* C11: in every window the selected pair is a valid pair of the grid whose summed
\* training return no valid pair exceeds, and every valid pair visited before it
\* in grid order has a strictly smaller sum (of equal sums the first is kept)
C11_SelectedPairMaximizesTrainingSum ==
    WfCalled =>
        \A i \in 1 .. Len(wf.results) :
            LET w == wf.results[i]
                perf == TrainPerf(w)
            IN  \E k \in ValidPairs :
                    /\ GridPair(k) = w.best_params
                    /\ perf[k] = w.best_perf
                    /\ \A j \in ValidPairs : perf[j] <= perf[k]
                    /\ \A j \in ValidPairs : j < k => perf[j] < perf[k]

\* a finished call with a window whose winner is not the first pair visited, beats
\* an earlier pair strictly and is tied by a pair visited after it
C11_Witness ==
    /\ WfCalled
    /\ wf.pc = "done"
    /\ \E i \in 1 .. Len(wf.results) :
           LET w == wf.results[i]
               perf == TrainPerf(w)
           IN  \E k \in ValidPairs :
                   /\ GridPair(k) = w.best_params
                   /\ \E j \in ValidPairs : j < k /\ perf[j] < perf[k]
                   /\ \E j \in ValidPairs : j > k /\ perf[j] = perf[k]

BtCalled == bt.op = "run_backtest"
\* the bars of the fetched series dated within [start_date, end_date]
BarsInRange ==
    {i \in 1 .. Len(bt.data.closes) : i >= bt.start_date /\ i <= bt.end_date}

\* C13: a run_backtest whose fetched series is empty returns the no-data message
\* (the error message when get_price handed back text instead of a list), and one
\* whose series has bars but none dated within [start_date, end_date] returns the
\* no-data-in-range message; in each case the call returns a string and has
\* computed no moving average's signal, no return column and no metric
C13_EmptySeriesOrRangeReported ==
    BtCalled /\ (bt.data.closes = <<>> \/ BarsInRange = {}) =>
        /\ bt.ret = (IF bt.data.kind # "json" THEN ErrBacktest
                     ELSE IF bt.data.closes = <<>> THEN NoDataFound
                     ELSE NoDataInRange)
        /\ bt.Signal = <<>>
        /\ bt.Market_Return = <<>>
        /\ bt.Strategy_Return = <<>>

\* a backtest over a series with bars, none of them in the date range, with windows
\* short enough to be computed had the range not been checked first
C13_Witness ==
    /\ BtCalled
    /\ bt.data.kind = "json"
    /\ bt.data.closes # <<>>
    /\ BarsInRange = {}
    /\ bt.ret = NoDataInRange
    /\ bt.fast = 1

\* ----------------------------------------------------- the analytics' claims

RiskCalled == risk # NoRun
OptCalled == opt # NoRun

\* C12: every call of a public analytics operation ends by returning a string: no
\* call of portfolio_risk, var, max_drawdown, monte_carlo_simulation,
\* mean_variance_optimize, risk_parity or walk_forward_analysis ends in an
\* exception that reaches the caller (run_backtest has no such ending at all)
C12_AnalyticsReturnAString ==
    /\ RiskCalled => ~risk.raised /\ risk.ret # NoneVal
    /\ OptCalled => ~opt.raised /\ opt.ret # NoneVal
    /\ WfCalled => wf.pc # "raised"

\* the download of the call gave no close at all for some held symbol
RiskUnfetched == \E s \in risk.tickers : risk.first[s] > risk.rows
RiskReports == {VolatilityReport, VarReport, DrawdownReport, MonteCarloResults}

\* C14: a risk call in which the series of some held symbol could not be fetched,
\* and a mean_variance_optimize in which the history of some ticker it asked for
\* came back empty, ends in a failure (a failure message or an exception) and
\* returns none of the reports that carry a figure
C14_NoFigureWhenASeriesIsMissing ==
    /\ RiskCalled /\ RiskUnfetched =>
           risk.figure = "none" /\ risk.ret \notin RiskReports
    /\ OptCalled /\ opt.op = "mean_variance_optimize"
         /\ (\E k \in 1 .. Len(opt.events) :
                /\ opt.events[k].call = "get_price"
                /\ get_price_local(opt.tickers[k], "1y", "1d", opt.fetches[k]) = <<>>) =>
           opt.figure = "none" /\ opt.ret = CouldNotFetch

\* the rows of the call's frame on which every held symbol has a return: a close
\* on that row and on the row before
AlignedReturnRows ==
    {t \in 2 .. risk.rows : \A s \in risk.tickers : risk.first[s] <= t - 1}

\* C15: a portfolio_risk call on a portfolio with positions whose frame leaves fewer
\* than 2 aligned return observations fails (an error message or an exception)
\* and does not return the volatility report
C15_VolatilityNeedsTwoObservations ==
    RiskCalled /\ risk.op = "portfolio_risk" /\ risk.tickers # {}
        /\ Cardinality(AlignedReturnRows) < 2 =>
            risk.ret # VolatilityReport /\ risk.figure = "none"

\* C16: a call of portfolio_risk, var, max_drawdown or monte_carlo_simulation made
\* while the account holds no position returns "Portfolio is empty." and does
\* nothing but ask for the positions: no download, no return series, no covariance,
\* no factorization, no draw
C16_EmptyPortfolioFetchesNothing ==
    RiskCalled /\ (\A s \in Symbols : positions[s] = 0) =>
        /\ risk.op \in {"portfolio_risk", "var", "max_drawdown", "monte_carlo_simulation"}
        /\ risk.ret = EmptyPortfolio
        /\ ~risk.raised
        /\ risk.figure = "none"
        /\ risk.events = <<Called("get_positions")>>

\* a simulation asked of a working broker whose account holds nothing
C16_Witness ==
    /\ RiskCalled
    /\ broker = "ok"
    /\ \A s \in Symbols : positions[s] = 0
    /\ risk.op = "monte_carlo_simulation"
    /\ risk.simulations > 0
    /\ risk.ret = EmptyPortfolio

\* the calls of the given name the risk call made
RiskCallsOf(name) == {k \in 1 .. Len(risk.events) : risk.events[k].call = name}

\* C18: a monte_carlo_simulation whose Cholesky factorization raised LinAlgError
\* returns the not-positive-definite message: it returns (no exception), reports
\* no statistic, has drawn no random shocks, and has called the factorization once
C18_CholeskyFailureReturnsAtOnce ==
    RiskCalled /\ risk.op = "monte_carlo_simulation"
        /\ RiskCallsOf("np.linalg.cholesky") # {} /\ risk.cholesky = "LinAlgError" =>
            /\ risk.ret = NotPositiveDefinite
            /\ ~risk.raised
            /\ risk.figure = "none"
            /\ RiskCallsOf("np.random.normal") = {}
            /\ Cardinality(RiskCallsOf("np.linalg.cholesky")) = 1
            /\ risk.events[Len(risk.events)].call = "np.linalg.cholesky"

\* two assets with a single aligned observation, paths asked for, and a
\* factorization that failed
C18_Witness ==
    /\ RiskCalled
    /\ risk.op = "monte_carlo_simulation"
    /\ Cardinality(risk.tickers) = 2
    /\ Cardinality(AlignedReturnRows) = 1
    /\ risk.simulations > 0
    /\ risk.days > 0
    /\ risk.cholesky = "LinAlgError"
    /\ risk.ret = NotPositiveDefinite

\* the calls of the given name the optimizer call made
OptCallsOf(name) == {k \in 1 .. Len(opt.events) : opt.events[k].call = name}

\* C19: a mean_variance_optimize whose solver came back without success returns the
\* failure message carrying the solver's own message, reports no allocation and
\* no figure, and has invoked the solver exactly once
C19_SolverFailureReportedOnce ==
    OptCalled /\ opt.op = "mean_variance_optimize" /\ OptCallsOf("minimize") # {}
        /\ opt.solver.kind = "result" /\ ~opt.solver.success =>
            /\ opt.ret = OptimizationFailed
            /\ opt.message = opt.solver.message
            /\ opt.figure = "none"
            /\ ~opt.raised
            /\ Cardinality(OptCallsOf("minimize")) = 1
            /\ opt.events[Len(opt.events)].call = "minimize"

\* two tickers with two aligned observations and a solver that hit its iteration limit
C19_Witness ==
    /\ OptCalled
    /\ opt.op = "mean_variance_optimize"
    /\ Len(opt.tickers) = 2
    /\ \A k \in 1 .. 2 : opt.fetches[k].kind = "frame" /\ opt.fetches[k].dates = 1 .. MaxRows
    /\ opt.solver.kind = "result"
    /\ opt.solver.message = "Iteration limit reached"
    /\ opt.ret = OptimizationFailed

\* C20: every price series a mean_variance_optimize call fetches is requested over
\* the period the caller passed as lookback ("1y" when the caller passed none)
C20_FetchPeriodIsLookback ==
    OptCalled /\ opt.op = "mean_variance_optimize" =>
        \A k \in OptCallsOf("get_price") : opt.events[k].period = opt.lookback

\* every ticker of the optimizer call came back with a history
OptAllFetched ==
    \A k \in 1 .. Len(opt.tickers) :
        opt.fetches[k].kind = "frame" /\ opt.fetches[k].dates # {}
\* the dates of the rows of the call's aligned return series
OptReturnRows ==
    aligned_returns([k \in 1 .. Len(opt.tickers) |->
                        get_price_local(opt.tickers[k], "1y", "1d", opt.fetches[k])],
                    opt.fill)

\* C21: a mean_variance_optimize whose aligned return series is empty returns the
\* insufficient-overlap message without invoking the solver, and the aligned
\* return series has a row only on dates on which every ticker has a price
C21_AlignedOnCommonDates ==
    OptCalled /\ opt.op = "mean_variance_optimize" /\ OptAllFetched =>
        /\ OptReturnRows = {} =>
               opt.ret = InsufficientOverlap /\ OptCallsOf("minimize") = {}
        /\ \A d \in OptReturnRows :
               \A k \in 1 .. Len(opt.tickers) : d \in opt.fetches[k].dates

OptSucceeded ==
    OptCalled /\ opt.op = "mean_variance_optimize" /\ opt.ret = OptimalAllocation

\* C22: a successful mean_variance_optimize reports in its allocation exactly the
\* tickers whose optimal weight is above 0.01, each with that weight (a weight of
\* exactly 0.01 is left out), while its expected return and the variance under its
\* volatility and Sharpe ratio are sums over every ticker, shown or not
C22_AllocationAboveOnePercent ==
    OptSucceeded =>
        LET n == Len(opt.tickers)
            w == opt.optimal_weights
        IN  /\ \A i \in 1 .. n :
                   (<<opt.tickers[i], w[i]>> \in opt.allocation) <=> (100 * w[i] > WeightScale)
            /\ \A a \in opt.allocation : \E i \in 1 .. n : a = <<opt.tickers[i], w[i]>>
            /\ opt.p_ret = SumSeq([i \in 1 .. n |-> w[i] * opt.mean_returns[i]], n)
            /\ opt.p_var =
                   SumSeq([i \in 1 .. n |->
                       SumSeq([j \in 1 .. n |-> w[i] * opt.cov_matrix[i][j] * w[j]], n)], n)

\* a success with one weight of exactly 0.01, left out of the allocation, whose
\* ticker still counts in the expected return
C22_Witness ==
    /\ OptSucceeded
    /\ Len(opt.tickers) = 2
    /\ 100 * opt.optimal_weights[1] = WeightScale
    /\ opt.allocation = {<<opt.tickers[2], opt.optimal_weights[2]>>}
    /\ opt.mean_returns[1] > 0
    /\ opt.p_ret > opt.optimal_weights[2] * opt.mean_returns[2]
    /\ opt.figure = "number"

\* --------------------------------------------------- the drawdown's claims

DrawdownComputed == calc.op = "max_dd"

\* the cumulative curve of the series computed, its NaN entries left out
CumulativeCurve == SelectSeq(cumprod(calc.port_returns), LAMBDA c : ~c.nan)

\* the curve never falls from one entry to the next
NonDecreasing(curve) == \A t \in 1 .. Len(curve) - 1 : GE(curve[t + 1], curve[t])

\* every return of the series leaves the cumulative value positive
AboveTotalLoss(r) == \A t \in 1 .. Len(r) : r[t].nan \/ r[t].num + r[t].den > 0

IsZero(a) == ~a.nan /\ a.num = 0

\* C23 as stated: for every return series the figure is <= 0, and it is 0
\* exactly when the cumulative curve is non-decreasing.
C23_DrawdownNonPositiveZeroIffMonotone ==
    DrawdownComputed =>
        /\ GE(Num(0, 1), calc.max_dd)
        /\ IsZero(calc.max_dd) <=> NonDecreasing(CumulativeCurve)

\* C23 amended: the figure is NaN when the series has no return or its first
\* return is a total loss, and <= 0 otherwise; over a series with at least one
\* return, each above -100%, it is 0 exactly when the cumulative curve is
\* non-decreasing.
C23_DrawdownOfAValidSeries ==
    DrawdownComputed =>
        /\ calc.max_dd.nan <=>
              (CumulativeCurve = <<>> \/ CumulativeCurve[1].num = 0)
        /\ ~calc.max_dd.nan => GE(Num(0, 1), calc.max_dd)
        /\ (CumulativeCurve # <<>> /\ AboveTotalLoss(calc.port_returns)) =>
              (IsZero(calc.max_dd) <=> NonDecreasing(CumulativeCurve))

\* a curve that rises, falls and stays positive: a drawdown below 0
C23_Witness ==
    /\ DrawdownComputed
    /\ Len(CumulativeCurve) >= 3
    /\ AboveTotalLoss(calc.port_returns)
    /\ ~NonDecreasing(CumulativeCurve)
    /\ GT(CumulativeCurve[2], CumulativeCurve[1])
    /\ GT(Num(0, 1), calc.max_dd)

\* ----------------------------------------------------- the weights' claims

WeightsComputed == calc.op = "weights"

\* every symbol held has a close on the last row
ValidPrices == \A s \in DOMAIN calc.held : ~calc.current_prices[s].nan

\* the market value of the position in s, and of the whole portfolio
MarketValue(s) == calc.held[s] * calc.current_prices[s].num
RECURSIVE TotalMarketValue(_)
TotalMarketValue(index) ==
    IF index = {} THEN 0
    ELSE LET s == CHOOSE t \in index : TRUE
         IN  MarketValue(s) + TotalMarketValue(index \ {s})

\* the weights sum to 1, and each is the symbol's share of the total value
WeightsAreShares ==
    /\ RatEq(SeriesSum(calc.weights, DOMAIN calc.held), Num(1, 1))
    /\ \A s \in DOMAIN calc.held :
          /\ ~calc.weights[s].nan
          /\ calc.weights[s].den # 0
          /\ calc.weights[s].num * TotalMarketValue(DOMAIN calc.held)
                = MarketValue(s) * calc.weights[s].den

\* C24 as stated: with at least one position and valid prices the weights sum
\* to 1 and each weight is the symbol's share of the total market value.
C24_WeightsSumToOne ==
    (WeightsComputed /\ ValidPrices) => WeightsAreShares

\* C24 amended: the same when the total market value is not 0; when long and
\* short positions cancel to a total of 0 every weight is infinite or NaN.
C24_WeightsSumToOneUnlessValueIsZero ==
    (WeightsComputed /\ ValidPrices) =>
        IF TotalMarketValue(DOMAIN calc.held) # 0
        THEN WeightsAreShares
        ELSE \A s \in DOMAIN calc.held : calc.weights[s].nan \/ calc.weights[s].den = 0

\* two positions of different value, one of them short, with a nonzero total
C24_Witness ==
    /\ WeightsComputed
    /\ ValidPrices
    /\ DOMAIN calc.held = Symbols
    /\ \E s \in Symbols : calc.held[s] < 0
    /\ TotalMarketValue(Symbols) # 0
    /\ \E s \in Symbols : \E t \in Symbols : ~RatEq(calc.weights[s], calc.weights[t])
    /\ \E s \in Symbols : calc.current_prices[s].num > 1

\* -------------------------------------------------- the simulation's claims

TwoInvocations == risk.op = "monte_carlo_simulation" /\ calc.op = "monte_carlo_simulation"

SameInputs ==
    /\ risk.simulations = calc.simulations
    /\ risk.days = calc.days
    /\ risk.held = calc.held

SameFigures ==
    /\ risk.expected_return = calc.expected_return
    /\ risk.worst_case = calc.worst_case
    /\ risk.best_case = calc.best_case

C25_UnseededDiffer ==
    /\ TwoInvocations
    /\ SameInputs
    /\ ~risk.seeded
    /\ ~calc.seeded
    /\ ~SameFigures

\* --------------------------------------------------- the watchlist's claims

StoredWatchlist == _load_watchlist(watchlist)

NoDuplicates(items) ==
    \A i \in 1 .. Len(items) : \A j \in 1 .. Len(items) : items[i] = items[j] => i = j

\* the symbol of the last call was in the list the call loaded, in some letter case
WasPresent == upper(last.symbol) \in Elements(_load_watchlist(last.before))

\* C26: the stored watchlist holds uppercase symbols, none twice; adding a
\* symbol already present in any letter case, and removing one not present,
\* leave the file as it was.
C26_WatchlistUppercaseNoDuplicates ==
    /\ \A i \in 1 .. Len(StoredWatchlist) : upper(StoredWatchlist[i]) = StoredWatchlist[i]
    /\ NoDuplicates(StoredWatchlist)
    /\ (last.op = "add_to_watchlist" /\ WasPresent) => watchlist = last.before
    /\ (last.op = "remove_from_watchlist" /\ ~WasPresent) => watchlist = last.before

\* a symbol typed in lower case is added to a list that holds it in upper case
C26_Witness ==
    /\ last.op = "add_to_watchlist"
    /\ last.symbol = "aapl"
    /\ WasPresent
    /\ Len(StoredWatchlist) >= 2
    /\ last.ret = AlreadyIn

\* ----------------------------------------- the walk-forward loop's claims

WfInLoop == wf.op = "walk_forward_analysis" /\ wf.pc = "loop"

\* C27: the window loop ends for every length of the series and every
\* train_months and test_months, test_months = 0 included: each pass moves the
\* start index up, until the loop condition fails and the report is made.
C27_LoopEndsByAdvancing ==
    /\ [][WalkForwardWindow => wf'.current_idx > wf.current_idx]_vars
    /\ WfInLoop ~> (wf.op = "walk_forward_analysis" /\ wf.pc = "done")

\* with a test window of at least one month each pass moves the start index up
AdvancesWhenTested ==
    [][(WalkForwardWindow /\ wf.test_months >= 1) => wf'.current_idx > wf.current_idx]_vars

\* the start indices of the windows generated so far
WindowStarts == {wf.results[i].train_first : i \in DOMAIN wf.results}
\* the start indices 0, S, 2S, ... with c + T + S < N
StartsInside ==
    {c \in 0 .. wf.n : c % wf.test_len = 0 /\ c + wf.train_len + wf.test_len < wf.n}

TestClose(w) == iloc(wf.series, wf.n, w.test_first, w.test_last + 1).close
TestSignal(w) ==
    Signal(rolling_mean(TestClose(w), w.best_params[1]),
           rolling_mean(TestClose(w), w.best_params[2]))

\* C29: the test signal comes from averages over the test window's own bars:
\* when the selected slow window is at least the test length 21*test_months,
\* the signal is 0 on every test bar and the recorded test return is exactly 0.
C29_SlowWindowBeyondTestGivesZero ==
    WfCalled =>
        \A i \in DOMAIN wf.results :
            LET w == wf.results[i]
            IN  w.best_params[2] >= TradingDaysPerMonth * wf.test_months =>
                    /\ \A t \in DOMAIN TestSignal(w) : TestSignal(w)[t] = 0
                    /\ w.test_return = 0

\* a window selected on merit whose test closes move, with a fast average that
\* the test window is long enough for, and a return of 0 all the same
C29_Witness ==
    /\ WfCalled
    /\ \E i \in DOMAIN wf.results :
        LET w == wf.results[i]
        IN  /\ w.best_params[2] >= TradingDaysPerMonth * wf.test_months
            /\ w.best_params[1] < TradingDaysPerMonth * wf.test_months
            /\ w.best_perf > 0
            /\ \E t \in 2 .. Len(TestClose(w)) : TestClose(w)[t] > TestClose(w)[t - 1]
            /\ w.test_return = 0

\* the broker did not answer the call's query for the positions
BrokerFailed == broker = "none" \/ risk.query = "raise"

\* C30: when the broker is missing or its query raises, get_positions gives the
\* error dict with cash 0 and no position and does not raise, and portfolio_risk,
\* var, max_drawdown and monte_carlo_simulation return "Portfolio is empty.",
\* having done what they do for an account that holds nothing: the failure is
\* in no part of the result.
C30_BrokerFailureReadsAsEmptyPortfolio ==
    (RiskCalled /\ BrokerFailed) =>
        /\ get_positions(risk.query).error
        /\ get_positions(risk.query).cash = 0
        /\ DOMAIN get_positions(risk.query).positions = {}
        /\ risk.op \in {"portfolio_risk", "var", "max_drawdown", "monte_carlo_simulation"}
        /\ risk.ret = EmptyPortfolio
        /\ ~risk.raised
        /\ risk.figure = "none"
        /\ risk.events = <<Called("get_positions")>>
        /\ risk.tickers = {}

\* a working broker whose query raises while the account holds positions
C30_Witness ==
    /\ RiskCalled
    /\ broker = "ok"
    /\ risk.query = "raise"
    /\ \E s \in Symbols : positions[s] > 0
    /\ risk.op = "var"
    /\ risk.ret = EmptyPortfolio

\* ----------------------------------------------------- get_price's claims

PriceCallDone == md # NoRun /\ md.pc = "done"

\* C17: a finished get_price call in which every history fetch raised has made
\* exactly 3 attempts, slept 2 seconds between consecutive attempts and not after
\* the last, and returned an error string; and a call has made no attempt after
\* one that fetched a history
C17_FailingFetchTriedThreeTimes ==
    PriceCallDone =>
        /\ (\A k \in 1 .. Len(md.log) : md.log[k] = "history_raised") =>
               /\ Len(md.log) = RetryTimes
               /\ md.sleeps = [k \in 1 .. RetryTimes - 1 |-> RetryDelay]
               /\ md.ret \in {ErrAfterRetries, ErrFetching}
        /\ \A k \in 1 .. Len(md.log) :
               md.log[k] \in {"bars", "empty"} => k = Len(md.log) /\ k <= RetryTimes

====
